---- MODULE Spec2Model ----
(***************************************************************************)
(* Verification model of the MemerV3 meme acquisition engine               *)
(* (src/memer/reddit_meme.py): the dedup caches, the warm buffers, the     *)
(* retrying fetchers and the tiered resolution algorithm fetch_meme, with  *)
(* the Keyword Cache collaborator modelled from its contract.              *)
(*                                                                         *)
(* Text values that the code lower-cases or searches (subreddit names,     *)
(* titles, keywords, domains) are sequences of one-character strings, so   *)
(* that lower() and the substring test are computed, not assumed.  Ids,    *)
(* URLs and listing names are only ever compared for equality and are      *)
(* plain strings.  Python's None / empty values are the empty sequence or  *)
(* the empty string, and NoPost / NoData for an absent item.               *)
(***************************************************************************)
EXTENDS Integers, Sequences, FiniteSets, TLC

VARIABLES
    ID_CACHE,     \* reddit_meme.py:22   set of item ids (TTLCache keys)
    HASH_CACHE,   \* reddit_meme.py:23   set of media URLs (TTLCache keys)
    WARM_CACHE,   \* reddit_meme.py:24   (source, listing) -> deque of raw items
    ram,          \* Keyword Cache fast tier:       (key, nsfw) -> list of normalized items
    disk,         \* Keyword Cache persistent tier: (key, nsfw) -> list of normalized items
    disabled,     \* Keyword Cache: the (key, nsfw) pairs it reports disabled
    pc,           \* position of the fetch_meme call in flight ("idle" when none)
    args,         \* arguments of the call in flight
    loc,          \* local variables of the call in flight
    result,       \* the MemeResult returned (meaningful when pc = "done")
    raised,       \* the exception that escaped the call (meaningful when pc = "raised")
    calls,        \* collaborator and network operations issued by the call in flight, in order
    ncalls        \* number of fetch_meme calls started so far

vars == <<ID_CACHE, HASH_CACHE, WARM_CACHE, ram, disk, disabled,
          pc, args, loc, result, raised, calls, ncalls>>

----------------------------------------------------------------------------
(* Text helpers *)

UpperChars == <<"A","B","C","D","E","F","G","H","I","J","K","L","M",
                "N","O","P","Q","R","S","T","U","V","W","X","Y","Z">>
LowerChars == <<"a","b","c","d","e","f","g","h","i","j","k","l","m",
                "n","o","p","q","r","s","t","u","v","w","x","y","z">>

\* str.lower() on one character
lower_char(c) ==
    IF \E i \in 1..Len(UpperChars) : UpperChars[i] = c
    THEN LowerChars[CHOOSE i \in 1..Len(UpperChars) : UpperChars[i] = c]
    ELSE c

\* str.lower()
lower(s) == [i \in 1..Len(s) |-> lower_char(s[i])]

\* Python's `needle in hay` on strings
Contains(needle, hay) ==
    \E i \in 0..(Len(hay) - Len(needle)) :
        SubSeq(hay, i + 1, i + Len(needle)) = needle

\* the elements of a sequence
Range(s) == {s[i] : i \in 1..Len(s)}

----------------------------------------------------------------------------
(* The remote sources: a small fixed universe of posts.  A raw item has   *)
(* the fields the engine reads (id, url, title, subreddit, domain); video  *)
(* is the playable URL the normalizer's secondary lookup resolves for a    *)
(* video post ("" for a non-video post), ext says whether the URL ends in  *)
(* one of the media extensions simple_random_meme accepts.                 *)

memes == <<"m","e","m","e","s">>
Pics  == <<"P","i","c","s">>       \* the name as a guild configures it
pics  == <<"p","i","c","s">>       \* the display name the remote reports
Cat   == <<"C","a","t">>           \* the keyword of the keyword calls

P1 == [id |-> "a", url |-> "u1", title |-> <<"c","a","t","s">>, subreddit |-> memes,
       domain |-> <<"i",".","r">>, video |-> "", ext |-> TRUE]
P2 == [id |-> "b", url |-> "u2", title |-> <<"d","o","g">>, subreddit |-> memes,
       domain |-> <<"v",".","r">>, video |-> "m2", ext |-> FALSE]
P3 == [id |-> "c", url |-> "u3", title |-> <<"a"," ","C","A","T">>, subreddit |-> pics,
       domain |-> <<"i",".","r">>, video |-> "", ext |-> TRUE]
P4 == [id |-> "d", url |-> "u4", title |-> <<"c","a","t">>, subreddit |-> pics,
       domain |-> <<"x",".","B","a","d">>, video |-> "", ext |-> TRUE]

NoPost == [id |-> "", url |-> "", title |-> <<>>, subreddit |-> <<>>,
           domain |-> <<>>, video |-> "", ext |-> FALSE]
NoData == [post_id |-> "", subreddit |-> <<>>, title |-> <<>>, url |-> "",
           media_url |-> ""]

Posts == {P1, P2, P3, P4}

\* what a source serves, in order, for a listing or a search
RemotePosts(name) ==
    IF lower(name) = memes THEN <<P1, P2>>
    ELSE IF lower(name) = pics THEN <<P4, P3>>
    ELSE <<>>

\* candidate source lists a caller passes (get_guild_subreddits)
SourceLists == {<<memes>>, <<Pics>>, <<memes, Pics>>}

\* recently served ids a caller excludes (get_recent_post_ids)
ExcludeSets == {{}, {"a"}}

\* the posts the /r_ command of the chat layer sends
SentPosts == {P2}

RAND_SENTINEL == <<"_","_","r","a","n","d","o","m","_","_">>
CacheKeys == {Cat, RAND_SENTINEL}
Listings == <<"hot", "new", "top">>
BlockedDomains == {<<"b","a","d">>}

\* bounds of the exploration
MaxCalls == 2    \* fetch_meme calls per behaviour
MaxBuf   == 3    \* items of a warm buffer a call finds
MaxStream == 4   \* items of a stream the reservoir pass runs over
MaxLate  == 1    \* how much longer than asked a sleep or the throttle can take

retries == 3     \* reddit_meme.py:63 and :126
backoff == 1     \* reddit_meme.py:64 and :127
limit   == 75    \* reddit_meme.py:339

----------------------------------------------------------------------------
(* Normalizer: helpers/meme_utils.py *)

\* get_image_url: the reddit_video fallback URL of a video post, else the URL
get_image_url(p) == IF p.video # "" THEN p.video ELSE p.url

\* extract_post_data: the flat record of a raw item; media_url is the URL the
\* secondary lookup resolves for a video post and the post's own URL otherwise
extract_post_data(p) ==
    [post_id   |-> IF p.id = "" THEN "?" ELSE p.id,
     subreddit |-> p.subreddit,
     title     |-> p.title,
     url       |-> p.url,
     media_url |-> IF p.video # "" THEN p.video ELSE get_image_url(p)]

\* the throwaway Cached object fetch_meme builds from a cached record
Cached(chosen) ==
    [id |-> chosen.post_id, url |-> chosen.media_url, title |-> chosen.title,
     subreddit |-> <<>>, domain |-> <<>>, video |-> "", ext |-> FALSE]

----------------------------------------------------------------------------
(* Keyword Cache collaborator (cache_mgr), from its contract *)

get_from_ram(key, nsfw)  == ram[<<key, nsfw>>]
get_from_disk(key, nsfw) == disk[<<key, nsfw>>]
is_disabled(key, nsfw)   == <<key, nsfw>> \in disabled

\* put_fast replaces the list stored under (key, audience)
cache_to_ram(r, key, items, nsfw) == [r EXCEPT ![<<key, nsfw>>] = items]

\* put_persistent upserts by post id: stored rows of other ids are kept
save_to_disk(d, key, items, nsfw) ==
    LET old  == d[<<key, nsfw>>]
        ids  == {items[i].post_id : i \in 1..Len(items)}
        keep == SelectSeq(old, LAMBDA e : e.post_id \notin ids)
        Dedup[i \in 0..Len(items)] ==
            IF i = 0 THEN <<>>
            ELSE IF \E j \in 1..(i - 1) : items[j].post_id = items[i].post_id
                 THEN Dedup[i - 1]
                 ELSE Append(Dedup[i - 1], items[i])
    IN  [d EXCEPT ![<<key, nsfw>>] = keep \o Dedup[Len(items)]]

----------------------------------------------------------------------------
(* Retrying fetchers *)

\* what one HTTP attempt of the Listing Fetcher can meet
ListingResponses == {"ok", "empty", "denied", "error"}

\* _fetch_listing_with_retry: outcomes[k] is what attempt k meets
RECURSIVE ListingRun(_, _, _, _)
ListingRun(name, outcomes, attempt, sleeps) ==
    IF attempt > retries
    THEN [items |-> <<>>, attempts |-> retries, sleeps |-> sleeps]
    ELSE CASE outcomes[attempt] = "ok" ->
                [items |-> RemotePosts(name), attempts |-> attempt, sleeps |-> sleeps]
           [] outcomes[attempt] \in {"denied", "empty"} ->
                [items |-> <<>>, attempts |-> attempt, sleeps |-> sleeps]
           [] OTHER ->
                ListingRun(name, outcomes, attempt + 1,
                           Append(sleeps, backoff * 2 ^ (attempt - 1)))

_fetch_listing_with_retry(name, outcomes) == ListingRun(name, outcomes, 1, <<>>)

\* _search_with_retry: outcomes[k] = -1 when attempt k streams every result,
\* otherwise the number of results it yields before a transient error
RECURSIVE SearchRun(_, _, _, _)
SearchRun(posts, outcomes, attempt, acc) ==
    IF attempt > retries
    THEN [items |-> acc, raised |-> TRUE]
    ELSE IF outcomes[attempt] = -1
         THEN [items |-> acc \o posts, raised |-> FALSE]
         ELSE SearchRun(posts, outcomes, attempt + 1,
                        acc \o SubSeq(posts, 1, outcomes[attempt]))

_search_with_retry(name, outcomes) == SearchRun(RemotePosts(name), outcomes, 1, <<>>)

\* where a transient error can strike a search attempt: at the request,
\* before the first result is streamed, or at the request of a further page,
\* after the first result has been streamed
SearchFailPoints(name) == {0, 1}

SearchOutcomes(name) == [1..retries -> {-1} \cup SearchFailPoints(name)]
ListingOutcomes == [1..retries -> ListingResponses]

\* the parameters _fetch_concurrent declares, and the keyword arguments that
\* fetch_meme and the warmup loop pass to it
fetch_concurrent_params == {"subreddits", "listing", "limit", "max_concurrent"}
fetch_concurrent_kwargs == {"session"}

\* a call binds only when every keyword argument names a declared parameter;
\* otherwise Python raises TypeError at the call
fetch_concurrent_binds == fetch_concurrent_kwargs \subseteq fetch_concurrent_params

\* reservoir sampling over the valid items of a stream: the set of items the
\* pass can end up holding (randrange(count) = 0 replaces the held item)
RECURSIVE Reservoir(_, _, _)
Reservoir(valid, i, choice) ==
    IF i > Len(valid) THEN {choice}
    ELSE UNION { Reservoir(valid, i + 1, IF r = 0 THEN valid[i] ELSE choice)
                 : r \in 0..(i - 1) }

\* the item lists one run of the Listing Fetcher can stream for a source
ListingResults(name) ==
    {_fetch_listing_with_retry(name, o).items : o \in ListingOutcomes}

\* the valid-item streams and raise flags one search of a source can produce
SearchResults(name) == {_search_with_retry(name, o) : o \in SearchOutcomes(name)}

----------------------------------------------------------------------------
(* State of a fetch_meme call *)

NoArgs == [keyword |-> <<>>, has_keyword |-> FALSE, subreddits |-> <<>>,
           nsfw |-> FALSE, exclude_ids |-> {}]

NoLoc == [subs |-> <<>>, i |-> 0, posts |-> <<>>, listing_used |-> "",
          tried |-> <<>>, combined_random |-> <<>>, ram_random_ids |-> {},
          random_cache_ids |-> {}, random_cache_urls |-> {}, random_answer |-> ""]

\* MemeResult; branch is not a field of the dataclass: it names the return
\* statement that built the record
MemeResult(post, source_subreddit, listing, tried_subreddits, errors, picked_via, post_dict, branch) ==
    [post |-> post, source_subreddit |-> source_subreddit, listing |-> listing,
     tried_subreddits |-> tried_subreddits, errors |-> errors,
     picked_via |-> picked_via, post_dict |-> post_dict, branch |-> branch]

NoResult == MemeResult(NoPost, <<>>, "", <<>>, <<>>, "", NoData, "")

\* one entry of the operation log of a call; items is what a cache write
\* stores and what a listing request of the live fetch streams back
Op(op, key, nsfw, items) ==
    [op |-> op, key |-> key, nsfw |-> nsfw, items |-> items]

\* subreddit_names (lines 351-354)
subreddit_names == {lower(args.subreddits[i]) : i \in 1..Len(args.subreddits)}

\* the orders random.shuffle can leave a list in
Shuffles(s) ==
    {t \in [1..Len(s) -> Range(s)] : \A i, j \in 1..Len(s) : i # j => t[i] # t[j]}

\* a validity test that does not look at the title
is_valid_post_AnyTitle(p) ==
    /\ p # NoPost
    /\ p.url # ""
    /\ p.url \notin HASH_CACHE
    /\ ~(args.exclude_ids # {} /\ p.id \in args.exclude_ids)
    /\ (args.keyword = <<>> =>
          /\ ~(p.id # "" /\ p.id \in loc.random_cache_ids)
          /\ p.url \notin loc.random_cache_urls)
    /\ ~(\E b \in BlockedDomains : Contains(b, lower(p.domain)))

\* is_valid_post (lines 374-410) for the call in flight
is_valid_post(p) ==
    /\ p # NoPost
    /\ p.url # ""
    /\ p.url \notin HASH_CACHE
    /\ ~(args.exclude_ids # {} /\ p.id \in args.exclude_ids)
    /\ (args.keyword = <<>> =>
          /\ ~(p.id # "" /\ p.id \in loc.random_cache_ids)
          /\ p.url \notin loc.random_cache_urls)
    /\ (args.has_keyword => Contains(lower(args.keyword), lower(p.title)))
    /\ ~(\E b \in BlockedDomains : Contains(b, lower(p.domain)))

\* a filter of cached entries that does not look at the entry's source
cached_valid_AnySource(posts) ==
    SelectSeq(posts, LAMBDA e : e.media_url # "")

\* the entries of a cached keyword list fetch_meme may serve (lines 417-422)
cached_valid(posts) ==
    SelectSeq(posts, LAMBDA e : e.media_url # "" /\ lower(e.subreddit) \in subreddit_names)

\* the entries of the cached random pool fetch_meme may serve (lines 560-565)
random_valid(pool) ==
    SelectSeq(pool, LAMBDA e : e.media_url # "" /\ e.media_url \notin HASH_CACHE)

\* the normalized records of a list of raw items
data_of(posts) == [k \in 1..Len(posts) |-> extract_post_data(posts[k])]

\* an append that does not look at the ids already pooled
append_rand_Always(existing_rand, data) == Append(existing_rand, data)

\* existing_rand after the append of lines 599-601, 632-634, 653-655
append_rand(existing_rand, data) ==
    IF data.post_id \notin {existing_rand[k].post_id : k \in 1..Len(existing_rand)}
    THEN Append(existing_rand, data)
    ELSE existing_rand

\* what the three success paths of the random path do to the caches
\* (lines 598-609, 627-642, 652-663), apart from the warm buffer write
RandomSuccess(post, ops) ==
    LET data == extract_post_data(post)
        existing_rand == append_rand(get_from_ram(RAND_SENTINEL, args.nsfw), data)
    IN  /\ ram' = cache_to_ram(ram, RAND_SENTINEL, existing_rand, args.nsfw)
        /\ disk' = save_to_disk(disk, RAND_SENTINEL, <<data>>, args.nsfw)
        /\ HASH_CACHE' = IF post.url # "" THEN HASH_CACHE \cup {post.url} ELSE HASH_CACHE
        /\ calls' = calls \o ops \o
             << Op("get_from_ram", RAND_SENTINEL, args.nsfw, <<>>),
                Op("cache_to_ram", RAND_SENTINEL, args.nsfw, existing_rand),
                Op("save_to_disk", RAND_SENTINEL, args.nsfw, <<data>>) >>

WarmKeys == {memes, Pics} \X Range(Listings)

----------------------------------------------------------------------------
(* Initial state: module import, nothing cached, no call in flight *)

Init ==
    /\ ID_CACHE = {}
    /\ HASH_CACHE = {}
    /\ WARM_CACHE = [k \in WarmKeys |-> <<>>]
    /\ ram = [k \in CacheKeys \X BOOLEAN |-> <<>>]
    /\ disk = [k \in CacheKeys \X BOOLEAN |-> <<>>]
    /\ disabled = {}
    /\ pc = "idle"
    /\ args = NoArgs
    /\ loc = NoLoc
    /\ result = NoResult
    /\ raised = ""
    /\ calls = <<>>
    /\ ncalls = 0

\* a return statement of fetch_meme
Return(r) ==
    /\ result' = r
    /\ pc' = "done"

----------------------------------------------------------------------------
(* fetch_meme, entry (lines 346-372): bind the arguments and, without a     *)
(* keyword, snapshot the cached random pool                                 *)

\* a test that sends every call down the random path
no_keyword_Always(kw) == TRUE

\* `if not keyword` (line 362) and the `if keyword:` of the keyword path
\* (line 413)
no_keyword(kw) == kw = <<>>

fetch_meme ==
    /\ pc = "idle"
    /\ ncalls < MaxCalls
    /\ ncalls' = ncalls + 1
    /\ \E kw \in {<<>>, Cat}, subreddits \in SourceLists, nsfw \in BOOLEAN,
          exclude_ids \in ExcludeSets :
         LET ram_random == get_from_ram(RAND_SENTINEL, nsfw)
             disk_random == get_from_disk(RAND_SENTINEL, nsfw)
             ram_random_ids ==
                 {ram_random[k].post_id : k \in 1..Len(ram_random)} \ {""}
             disk_random_ids ==
                 {disk_random[k].post_id : k \in 1..Len(disk_random)} \ {""}
             combined_random ==
                 ram_random \o
                 SelectSeq(disk_random, LAMBDA e : e.post_id \notin ram_random_ids)
         IN  /\ args' = [keyword |-> kw, has_keyword |-> kw # <<>>,
                         subreddits |-> subreddits, nsfw |-> nsfw,
                         exclude_ids |-> exclude_ids]
             /\ IF no_keyword(kw)
                THEN /\ loc' = [NoLoc EXCEPT
                         !.combined_random = combined_random,
                         !.ram_random_ids = ram_random_ids,
                         !.random_cache_ids = ram_random_ids \cup disk_random_ids,
                         !.random_cache_urls =
                             {combined_random[k].media_url :
                                 k \in 1..Len(combined_random)} \ {""}]
                     /\ calls' = << Op("get_from_ram", RAND_SENTINEL, nsfw, <<>>),
                                    Op("get_from_disk", RAND_SENTINEL, nsfw, <<>>) >>
                     /\ pc' = "random_pool"
                ELSE /\ loc' = NoLoc
                     /\ calls' = <<>>
                     /\ pc' = "kw_ram"
    /\ result' = NoResult
    /\ raised' = ""
    /\ UNCHANGED <<ID_CACHE, HASH_CACHE, WARM_CACHE, ram, disk, disabled>>

----------------------------------------------------------------------------
(* Keyword path *)

\* (1) RAM cache, lines 414-442
KwRam ==
    /\ pc = "kw_ram"
    /\ LET valid == cached_valid(get_from_ram(args.keyword, args.nsfw))
       IN  /\ calls' = Append(calls, Op("get_from_ram", args.keyword, args.nsfw, <<>>))
           /\ IF valid # <<>>
              THEN \E k \in 1..Len(valid) :
                     LET chosen == valid[k]
                     IN  /\ HASH_CACHE' = HASH_CACHE \cup {chosen.media_url}
                         /\ Return(MemeResult(Cached(chosen), chosen.subreddit, "cache_ram",
                                              <<args.keyword>>, <<>>, "cache", chosen,
                                              "kw_ram"))
              ELSE /\ pc' = "kw_disk"
                   /\ UNCHANGED <<HASH_CACHE, result>>
    /\ UNCHANGED <<ID_CACHE, WARM_CACHE, ram, disk, disabled, args, loc, raised, ncalls>>

\* (2) Disk cache, lines 444-472
KwDisk ==
    /\ pc = "kw_disk"
    /\ LET valid == cached_valid(get_from_disk(args.keyword, args.nsfw))
       IN  /\ calls' = Append(calls, Op("get_from_disk", args.keyword, args.nsfw, <<>>))
           /\ IF valid # <<>>
              THEN \E k \in 1..Len(valid) :
                     LET chosen == valid[k]
                     IN  /\ HASH_CACHE' = HASH_CACHE \cup {chosen.media_url}
                         /\ Return(MemeResult(Cached(chosen), chosen.subreddit, "cache_disk",
                                              <<args.keyword>>, <<>>, "cache", chosen,
                                              "kw_disk"))
              ELSE /\ pc' = "kw_disabled"
                   /\ UNCHANGED <<HASH_CACHE, result>>
    /\ UNCHANGED <<ID_CACHE, WARM_CACHE, ram, disk, disabled, args, loc, raised, ncalls>>

\* a disabled outcome that forgets its error
DisabledResult_NoError ==
    MemeResult(NoPost, <<>>, "", <<args.keyword>>, <<>>, "fallback", NoData,
               "kw_disabled")

\* the MemeResult of the disabled short-circuit, line 476
DisabledResult ==
    MemeResult(NoPost, <<>>, "", <<args.keyword>>, <<"disabled">>, "fallback", NoData,
               "kw_disabled")

\* a disabled test that never short-circuits
keyword_disabled_Never == FALSE

\* the test of line 475
keyword_disabled == is_disabled(args.keyword, args.nsfw)

\* (3) Disabled?, lines 474-476
KwDisabled ==
    /\ pc = "kw_disabled"
    /\ calls' = Append(calls, Op("is_disabled", args.keyword, args.nsfw, <<>>))
    /\ IF keyword_disabled
       THEN Return(DisabledResult)
       ELSE /\ pc' = "kw_subs"
            /\ UNCHANGED result
    /\ UNCHANGED <<ID_CACHE, HASH_CACHE, WARM_CACHE, ram, disk, disabled, args, loc,
                   raised, ncalls>>

\* (4) subreddit objects for the search, lines 481-488; a failure of the
\* gather is caught at line 519, which empties posts
KwSubObjs ==
    /\ pc = "kw_subs"
    /\ \E ok \in BOOLEAN :
         IF ok
         THEN /\ pc' = "kw_search"
              /\ loc' = [loc EXCEPT !.i = 1]
         ELSE /\ pc' = "kw_finish"
              /\ loc' = [loc EXCEPT !.posts = <<>>]
    /\ calls' = Append(calls, Op("subreddit", <<>>, FALSE, <<>>))
    /\ UNCHANGED <<ID_CACHE, HASH_CACHE, WARM_CACHE, ram, disk, disabled, args, result,
                   raised, ncalls>>

\* the awaited acquisition of the process-wide Rate Throttle
\* (memer.helpers.rate_limit.throttle), as the fetchers make it before the
\* request of an attempt (lines 77 and 143)
throttle == Op("throttle", <<>>, FALSE, <<>>)

\* (4) live search of one source, lines 491-499, and after the last source
\* the choice between the listing fallback and "search" (lines 501, 517-518)
KwSearch ==
    /\ pc = "kw_search"
    /\ LET name == args.subreddits[loc.i]
       IN  \E run \in SearchResults(name) :
             LET posts == loc.posts \o SelectSeq(run.items, is_valid_post)
                 last == loc.i = Len(args.subreddits)
             IN  /\ calls' = calls \o <<throttle, Op("search", name, FALSE, <<>>)>>
                 /\ IF ~last
                    THEN /\ loc' = [loc EXCEPT !.posts = posts, !.i = loc.i + 1]
                         /\ pc' = "kw_search"
                    ELSE IF posts = <<>>
                    THEN /\ loc' = [loc EXCEPT !.posts = posts, !.i = 1]
                         /\ pc' = "kw_listing"
                    ELSE /\ loc' = [loc EXCEPT !.posts = posts, !.listing_used = "search"]
                         /\ pc' = "kw_finish"
    /\ UNCHANGED <<ID_CACHE, HASH_CACHE, WARM_CACHE, ram, disk, disabled, args, result,
                   raised, ncalls>>

\* _fetch_concurrent (lines 184-215): one Listing Fetcher run per source,
\* gathered in order into (name, posts) pairs
fetch_concurrent_results(subreddits) ==
    {r \in [1..Len(subreddits) ->
                UNION {ListingResults(subreddits[k]) : k \in 1..Len(subreddits)}] :
        \A k \in 1..Len(subreddits) : r[k] \in ListingResults(subreddits[k])}

\* the lists of a sequence of lists, concatenated
RECURSIVE Flatten(_)
Flatten(ss) == IF ss = <<>> THEN <<>> ELSE Head(ss) \o Flatten(Tail(ss))

\* (5) listing fallback for one category, lines 501-516.  The call of
\* _fetch_concurrent at line 507 passes session=, so when the call does not
\* bind it raises TypeError, which line 519 catches and turns into posts = []
KwListing ==
    /\ pc = "kw_listing"
    /\ LET listing_choice == Listings[loc.i]
       IN  IF ~fetch_concurrent_binds
           THEN /\ loc' = [loc EXCEPT !.posts = <<>>]
                /\ pc' = "kw_finish"
                /\ calls' = calls
           ELSE \E r \in fetch_concurrent_results(args.subreddits) :
                  LET posts_accum == SelectSeq(Flatten(r), is_valid_post)
                  IN  /\ calls' = calls \o
                            Flatten([k \in 1..Len(args.subreddits) |->
                               <<throttle,
                                 Op("listing", args.subreddits[k], FALSE, <<>>)>>])
                      /\ IF posts_accum # <<>>
                         THEN /\ loc' = [loc EXCEPT !.posts = posts_accum,
                                                    !.listing_used = listing_choice]
                              /\ pc' = "kw_finish"
                         ELSE IF loc.i < Len(Listings)
                         THEN /\ loc' = [loc EXCEPT !.i = loc.i + 1]
                              /\ pc' = "kw_listing"
                         ELSE /\ loc' = loc
                              /\ pc' = "kw_finish"
    /\ UNCHANGED <<ID_CACHE, HASH_CACHE, WARM_CACHE, ram, disk, disabled, args, result,
                   raised, ncalls>>

\* what record_failure may do to the disabled set: the Keyword Cache decides
\* when the failures of a pair are enough to disable it
record_failure(key, nsfw) == {disabled, disabled \cup {<<key, nsfw>>}}

\* a batch that keeps only its first item
cache_posts_FirstOnly(posts) == <<extract_post_data(posts[1])>>

\* cache_posts, line 523: the normalized record of every collected item
cache_posts_of(posts) == data_of(posts)

\* a total failure that does not report to the Keyword Cache
failure_ops_None == <<>>

\* the collaborator call of the total failure, line 543
failure_ops == <<Op("record_failure", args.keyword, args.nsfw, <<>>)>>

\* the MemeResult of the keyword total failure, lines 544-551
KwFailResult ==
    MemeResult(NoPost, <<>>, "", <<args.keyword>>, <<"no valid posts">>, "fallback",
               NoData, "kw_fail")

\* a cache write that leaves the audience to its default
cache_audience_General == FALSE

\* the nsfw=nsfw argument of the cache writes of lines 524-525
cache_audience == args.nsfw

\* lines 522-551: cache the batch and return one item of it, or record the
\* failure and return the absent outcome
KwFinish ==
    /\ pc = "kw_finish"
    /\ IF loc.posts # <<>>
       THEN LET cache_posts == cache_posts_of(loc.posts)
            IN  /\ ram' = cache_to_ram(ram, args.keyword, cache_posts, cache_audience)
                /\ disk' = save_to_disk(disk, args.keyword, cache_posts, cache_audience)
                /\ calls' = calls \o
                     << Op("cache_to_ram", args.keyword, cache_audience, cache_posts),
                        Op("save_to_disk", args.keyword, cache_audience, cache_posts) >>
                /\ \E k \in 1..Len(loc.posts) :
                     LET chosen_post == loc.posts[k]
                         chosen_data == extract_post_data(chosen_post)
                     IN  /\ HASH_CACHE' = IF chosen_post.url # ""
                                          THEN HASH_CACHE \cup {chosen_post.url}
                                          ELSE HASH_CACHE
                         /\ Return(MemeResult(chosen_post, chosen_data.subreddit,
                                              loc.listing_used, <<args.keyword>>, <<>>,
                                              "live", chosen_data, "kw_live"))
                /\ UNCHANGED disabled
       ELSE /\ disabled' \in
                 IF failure_ops # <<>>
                 THEN record_failure(args.keyword, args.nsfw) ELSE {disabled}
            /\ calls' = calls \o failure_ops
            /\ Return(KwFailResult)
            /\ UNCHANGED <<HASH_CACHE, ram, disk>>
    /\ UNCHANGED <<ID_CACHE, WARM_CACHE, args, loc, raised, ncalls>>

----------------------------------------------------------------------------
(* No-keyword path *)

\* a label that ignores where the entry came from
source_listing_AlwaysRam(post_id) == "cache_ram"

\* source_listing (line 577)
source_listing(post_id) ==
    IF post_id \in loc.ram_random_ids THEN "cache_ram" ELSE "cache_disk"

\* lines 553-586: shuffle the sources, then serve from the cached random pool
RandomPool ==
    /\ pc = "random_pool"
    /\ \E subs \in Shuffles(args.subreddits) :
         LET valid == random_valid(loc.combined_random)
         IN  IF valid # <<>>
             THEN \E k \in 1..Len(valid) :
                    LET chosen == valid[k]
                    IN  /\ HASH_CACHE' = HASH_CACHE \cup {chosen.media_url}
                        /\ loc' = [loc EXCEPT !.subs = subs]
                        /\ Return(MemeResult(Cached(chosen), chosen.subreddit,
                                             source_listing(chosen.post_id),
                                             IF chosen.subreddit # <<>>
                                             THEN <<chosen.subreddit>> ELSE <<>>,
                                             <<>>, "cache", chosen, "random_pool"))
             ELSE /\ loc' = [loc EXCEPT !.subs = subs]
                  /\ pc' = "warm"
                  /\ UNCHANGED <<HASH_CACHE, result>>
    /\ UNCHANGED <<ID_CACHE, WARM_CACHE, ram, disk, disabled, args, raised, calls, ncalls>>

\* a pop at the wrong end of the deque
pop_Left(buf) == Tail(buf)

\* what deque.pop() (line 596) leaves of a buffer: all but its right end
pop(buf) == SubSeq(buf, 1, Len(buf) - 1)

\* a scan that takes one item of each buffer and moves on
RECURSIVE WarmScan_OnePop(_, _, _)
WarmScan_OnePop(w, li, si) ==
    IF li > Len(Listings)
    THEN [warm |-> w, post |-> NoPost, name |-> <<>>, listing |-> ""]
    ELSE IF si > Len(loc.subs)
    THEN WarmScan_OnePop(w, li + 1, 1)
    ELSE LET name == loc.subs[si]
             key == <<name, Listings[li]>>
             buf == w[key]
         IN  IF buf = <<>>
             THEN WarmScan_OnePop(w, li, si + 1)
             ELSE IF is_valid_post(buf[Len(buf)])
             THEN [warm |-> [w EXCEPT ![key] = pop(buf)], post |-> buf[Len(buf)],
                   name |-> name, listing |-> Listings[li]]
             ELSE WarmScan_OnePop([w EXCEPT ![key] = pop(buf)], li, si + 1)

\* lines 589-597: pop the buffers in listing-then-source order until a popped
\* item is valid; returns the buffers as left and the item found (or NoPost)
RECURSIVE WarmScan(_, _, _)
WarmScan(w, li, si) ==
    IF li > Len(Listings)
    THEN [warm |-> w, post |-> NoPost, name |-> <<>>, listing |-> ""]
    ELSE IF si > Len(loc.subs)
    THEN WarmScan(w, li + 1, 1)
    ELSE LET name == loc.subs[si]
             key == <<name, Listings[li]>>
             buf == w[key]
         IN  IF buf = <<>>
             THEN WarmScan(w, li, si + 1)
             ELSE LET post == buf[Len(buf)]
                      popped == [w EXCEPT ![key] = pop(buf)]
                  IN  IF is_valid_post(post)
                      THEN [warm |-> popped, post |-> post, name |-> name,
                            listing |-> Listings[li]]
                      ELSE WarmScan(popped, li, si)

\* 1: warm buffers, lines 588-610
Warm ==
    /\ pc = "warm"
    /\ LET scan == WarmScan(WARM_CACHE, 1, 1)
       IN  /\ WARM_CACHE' = scan.warm
           /\ IF scan.post # NoPost
              THEN /\ RandomSuccess(scan.post, <<>>)
                   /\ Return(MemeResult(scan.post, scan.name, scan.listing, <<scan.name>>,
                                        <<>>, "warm", extract_post_data(scan.post), "warm"))
                   /\ loc' = loc
              ELSE /\ loc' = [loc EXCEPT !.i = 1]
                   /\ pc' = "live"
                   /\ UNCHANGED <<HASH_CACHE, ram, disk, calls, result>>
    /\ UNCHANGED <<ID_CACHE, disabled, args, raised, ncalls>>

\* a push onto a sequence without capacity
appendleft_Unbounded(buf, x) == <<x>> \o buf

\* a live fetch that does not seed the buffer
appendleft_NoSeed(buf, x) == buf

\* deque.appendleft on a deque of maxlen limit: at capacity the item at the
\* right end is discarded
appendleft(buf, x) ==
    IF Len(buf) >= limit THEN <<x>> \o SubSeq(buf, 1, limit - 1) ELSE <<x>> \o buf

\* 2: live fetch of one source, lines 612-645
Live ==
    /\ pc = "live"
    /\ LET name == loc.subs[loc.i]
           tried == Append(loc.tried, name)
       IN  \E listing_choice \in Range(Listings), items \in ListingResults(name) :
             \E choice_post \in Reservoir(SelectSeq(items, is_valid_post), 1, NoPost) :
               LET req == Op("listing", name, FALSE, items)
               IN  IF choice_post # NoPost
                   THEN /\ WARM_CACHE' =
                             [WARM_CACHE EXCEPT ![<<name, listing_choice>>] =
                                 appendleft(@, choice_post)]
                        /\ RandomSuccess(choice_post, <<throttle, req>>)
                        /\ loc' = [loc EXCEPT !.tried = tried]
                        /\ Return(MemeResult(choice_post, name, listing_choice, tried, <<>>,
                                             "fallback", extract_post_data(choice_post),
                                             "live"))
                   ELSE /\ loc' = [loc EXCEPT !.tried = tried, !.i = loc.i + 1]
                        /\ pc' = IF loc.i < Len(loc.subs) THEN "live" ELSE "ultimate"
                        /\ calls' = calls \o <<throttle, req>>
                        /\ UNCHANGED <<HASH_CACHE, WARM_CACHE, ram, disk, result>>
    /\ UNCHANGED <<ID_CACHE, disabled, args, raised, ncalls>>

\* what the single-source random endpoint (sub.random(), line 283) can answer:
\* a post, nothing, BadRequest, NotFound/Forbidden, or another error
RandomEndpoint ==
    {[kind |-> "post", post |-> p] : p \in Posts} \cup
    {[kind |-> k, post |-> NoPost] : k \in {"none", "bad_request", "denied", "error"}}

\* the item test of the .hot() fallback of simple_random_meme, lines 304-312
hot_valid(p, subreddit_name) ==
    /\ lower(p.subreddit) = lower(subreddit_name)
    /\ (p.ext \/ Contains(<<"r","e","d","g","i","f","s">>, lower(p.domain)))

\* simple_random_meme (lines 275-331): the outcomes of one call, each with the
\* requests it issued and what the random endpoint answered; raised is the
\* SubredditUnavailableError of line 291
simple_random_meme(subreddit_name) ==
    LET rnd == Op("random", subreddit_name, FALSE, <<>>)
        hot == Op("listing", subreddit_name, FALSE, <<>>)
        Hot == UNION {
                 {[raised |-> FALSE, post |-> c, ops |-> <<rnd, throttle, hot>>, answer |-> ""] :
                    c \in Reservoir(SelectSeq(items,
                                      LAMBDA p : hot_valid(p, subreddit_name)), 1, NoPost)}
                 : items \in ListingResults(subreddit_name)}
        One(e) ==
            IF e.kind = "denied"
            THEN {[raised |-> TRUE, post |-> NoPost, ops |-> <<rnd>>, answer |-> e.kind]}
            ELSE IF e.kind = "post" /\ lower(e.post.subreddit) = lower(subreddit_name)
            THEN {[raised |-> FALSE, post |-> e.post, ops |-> <<rnd>>, answer |-> e.kind]}
            ELSE {[o EXCEPT !.answer = e.kind] : o \in Hot}
    IN  UNION {One(e) : e \in RandomEndpoint}

\* the last resort and the total failure, lines 647-667; an exception of
\* simple_random_meme is not caught here and leaves fetch_meme
Ultimate ==
    /\ pc = "ultimate"
    /\ LET chosen_sub == args.subreddits[1]
       IN  \E out \in simple_random_meme(chosen_sub) :
             /\ loc' = [loc EXCEPT !.random_answer = out.answer]
             /\ IF out.raised
                THEN /\ pc' = "raised"
                     /\ raised' = "SubredditUnavailableError"
                     /\ calls' = calls \o out.ops
                     /\ UNCHANGED <<HASH_CACHE, ram, disk, result>>
                ELSE IF out.post # NoPost /\ is_valid_post(out.post)
                THEN /\ RandomSuccess(out.post, out.ops)
                     /\ Return(MemeResult(out.post, chosen_sub, "random", loc.tried, <<>>,
                                          "random", extract_post_data(out.post), "random"))
                     /\ UNCHANGED raised
                ELSE /\ calls' = calls \o out.ops
                     /\ Return(MemeResult(NoPost, <<>>, "", loc.tried,
                                          <<"All fallback failed">>, "none", NoData, "none"))
                     /\ UNCHANGED <<HASH_CACHE, ram, disk, raised>>
    /\ UNCHANGED <<ID_CACHE, WARM_CACHE, disabled, args, ncalls>>

\* the caller takes the outcome (cogs/meme.py:253-265); the engine is ready
\* for the next call
Complete ==
    /\ pc \in {"done", "raised"}
    /\ pc' = "idle"
    /\ args' = NoArgs
    /\ loc' = NoLoc
    /\ result' = NoResult
    /\ raised' = ""
    /\ calls' = <<>>
    /\ UNCHANGED <<ID_CACHE, HASH_CACHE, WARM_CACHE, ram, disk, disabled, ncalls>>

\* the chat layer records a post it sends in the dedup caches
\* (cogs/meme.py:157-165 and 504-511): the id, and the URL get_image_url
\* resolves for it
send_meme ==
    /\ \E p \in SentPosts :
         /\ p.id \notin ID_CACHE
         /\ ID_CACHE' = ID_CACHE \cup {p.id}
         /\ HASH_CACHE' = HASH_CACHE \cup {get_image_url(p)}
    /\ UNCHANGED <<WARM_CACHE, ram, disk, disabled, pc, args, loc, result, raised,
                   calls, ncalls>>

\* the process restarts: the module-level caches and buffers start empty
\* again (lines 21-25) and the fast tier with them, the persistent tier and
\* what the Keyword Cache has disabled survive
restart ==
    /\ pc = "idle"
    /\ ID_CACHE' = {}
    /\ HASH_CACHE' = {}
    /\ WARM_CACHE' = [k \in WarmKeys |-> <<>>]
    /\ ram' = [k \in CacheKeys \X BOOLEAN |-> <<>>]
    /\ UNCHANGED <<disk, disabled, pc, args, loc, result, raised, calls, ncalls>>

Next ==
    \/ fetch_meme
    \/ KwRam
    \/ KwDisk
    \/ KwDisabled
    \/ KwSubObjs
    \/ KwSearch
    \/ KwListing
    \/ KwFinish
    \/ RandomPool
    \/ Warm
    \/ Live
    \/ Ultimate
    \/ Complete
    \/ send_meme
    \/ restart

Spec == Init /\ [][Next]_vars

----------------------------------------------------------------------------
(* The no-keyword path over warm buffers as a call can find them.  The     *)
(* buffers are module state that fetch_meme reads and pops (lines 588-597) *)
(* whatever filled them: the warm-up loop (lines 252-255) stores a whole   *)
(* listing per (source, listing), the live fetch (line 630) one item; the  *)
(* dedup cache may or may not still hold the URL of an item (its entries   *)
(* expire, line 23).                                                        *)

RECURSIVE SeqsUpTo(_, _)
SeqsUpTo(S, n) ==
    IF n = 0 THEN {<<>>}
    ELSE LET shorter == SeqsUpTo(S, n - 1)
         IN  shorter \cup {Append(s, x) : s \in {q \in shorter : Len(q) = n - 1}, x \in S}

\* buffers of the ("memes", "hot") key: items of the memes listing
WarmBuffers == SeqsUpTo(Range(RemotePosts(memes)), MaxBuf)

InitWarm ==
    /\ ID_CACHE = {}
    /\ HASH_CACHE \in {{}, {P1.url}}
    /\ \E b \in WarmBuffers, c \in {<<>>, <<P3>>} :
          WARM_CACHE = [k \in WarmKeys |->
                           IF k = <<memes, "hot">> THEN b
                           ELSE IF k = <<Pics, "new">> THEN c
                           ELSE <<>>]
    /\ ram = [k \in CacheKeys \X BOOLEAN |-> <<>>]
    /\ disk = [k \in CacheKeys \X BOOLEAN |-> <<>>]
    /\ disabled = {}
    /\ pc = "idle"
    /\ args = NoArgs
    /\ loc = NoLoc
    /\ result = NoResult
    /\ raised = ""
    /\ calls = <<>>
    /\ ncalls = 0

NextWarm ==
    \/ fetch_meme
    \/ RandomPool
    \/ Warm
    \/ Live
    \/ Ultimate
    \/ Complete

SpecWarm == InitWarm /\ [][NextWarm]_vars

----------------------------------------------------------------------------
(* The reservoir pass on its own (lines 619-625 of fetch_meme, 298-316 of   *)
(* simple_random_meme): count = 0, choice = None, then for every item of    *)
(* the stream that passes the validity test, count += 1 and the item        *)
(* replaces choice when randrange(count) == 0.  A stream is the sequence of *)
(* the verdicts of the validity test; an item is known by its position.     *)
(* args holds the stream; loc the position reached, count, choice (0 for    *)
(* None) and the values randrange has returned.                             *)

\* a replacement decided by a coin flip
randrange_Coin(count) == 0..1

\* the values random.randrange(count) can return, each equally likely
randrange(count) == 0..(count - 1)

ReservoirStreams == SeqsUpTo(BOOLEAN, MaxStream)

InitReservoir ==
    /\ ID_CACHE = {}
    /\ HASH_CACHE = {}
    /\ WARM_CACHE = [k \in WarmKeys |-> <<>>]
    /\ ram = [k \in CacheKeys \X BOOLEAN |-> <<>>]
    /\ disk = [k \in CacheKeys \X BOOLEAN |-> <<>>]
    /\ disabled = {}
    /\ pc = "rs_scan"
    /\ \E s \in ReservoirStreams : args = [stream |-> s]
    /\ loc = [i |-> 0, count |-> 0, choice |-> 0, draws |-> <<>>]
    /\ result = NoResult
    /\ raised = ""
    /\ calls = <<>>
    /\ ncalls = 0

\* one iteration of the async for
ReservoirStep ==
    /\ pc = "rs_scan"
    /\ loc.i < Len(args.stream)
    /\ LET i == loc.i + 1
           count == loc.count + 1
       IN  IF args.stream[i]
           THEN \E r \in randrange(count) :
                  loc' = [i |-> i, count |-> count,
                          choice |-> IF r = 0 THEN i ELSE loc.choice,
                          draws |-> Append(loc.draws, r)]
           ELSE loc' = [loc EXCEPT !.i = i]
    /\ UNCHANGED <<ID_CACHE, HASH_CACHE, WARM_CACHE, ram, disk, disabled, pc, args,
                   result, raised, calls, ncalls>>

\* the stream is exhausted
ReservoirEnd ==
    /\ pc = "rs_scan"
    /\ loc.i = Len(args.stream)
    /\ pc' = "rs_done"
    /\ UNCHANGED <<ID_CACHE, HASH_CACHE, WARM_CACHE, ram, disk, disabled, args, loc,
                   result, raised, calls, ncalls>>

NextReservoir ==
    \/ ReservoirStep
    \/ ReservoirEnd

SpecReservoir == InitReservoir /\ [][NextReservoir]_vars

----------------------------------------------------------------------------
(* The retrying fetchers step by step, one call of _fetch_listing_with_retry *)
(* (lines 58-119) or _search_with_retry (lines 122-181) run to its end.      *)
(* args holds the source and what each attempt meets; loc the attempt        *)
(* number, the clock and the log of requests and sleeps; result what the     *)
(* consumer of the async generator gets: the items yielded and the exception *)
(* raised ("" for a normal end).                                             *)

\* a log entry: a request with the response it met, or a sleep of secs
FetchEvent(ev, attempt, at, resp, secs) ==
    [ev |-> ev, attempt |-> attempt, at |-> at, resp |-> resp, secs |-> secs]

\* a status test that misses 403/404, which raise_for_status then raises on
transient_DeniedToo(resp) == resp \in {"error", "denied"}

\* the responses that raise inside the try of the listing attempt
\* (raise_for_status, a connection error): 403/404 return None first
transient(resp) == resp = "error"

\* a backoff that does not grow
delay_Constant(attempt) == backoff

\* the argument of asyncio.sleep after a failed attempt (lines 115, 178)
delay(attempt) == backoff * 2 ^ (attempt - 1)

\* a search that ends quietly when its attempts are used up
search_exhausted_Soft == ""

\* how _search_with_retry ends when its attempts are used up (lines 179-181)
search_exhausted == "RedditMemeError"

InitFetchers ==
    /\ ID_CACHE = {}
    /\ HASH_CACHE = {}
    /\ WARM_CACHE = [k \in WarmKeys |-> <<>>]
    /\ ram = [k \in CacheKeys \X BOOLEAN |-> <<>>]
    /\ disk = [k \in CacheKeys \X BOOLEAN |-> <<>>]
    /\ disabled = {}
    /\ pc = "f_attempt"
    /\ \E name \in {memes, Pics} :
          \/ \E o \in ListingOutcomes :
                args = [fetcher |-> "listing", name |-> name, outcomes |-> o]
          \/ \E o \in SearchOutcomes(name) :
                args = [fetcher |-> "search", name |-> name, outcomes |-> o]
    /\ loc = [attempt |-> 1, now |-> 0, events |-> <<>>]
    /\ result = [items |-> <<>>, raised |-> ""]
    /\ raised = ""
    /\ calls = <<>>
    /\ ncalls = 0

\* one attempt of the listing fetcher, lines 76-105
ListingAttempt ==
    /\ pc = "f_attempt"
    /\ args.fetcher = "listing"
    /\ \E wait \in 0..MaxLate :
         LET resp == args.outcomes[loc.attempt]
             at   == loc.now + wait
         IN  /\ loc' = [loc EXCEPT !.now = at,
                          !.events = Append(@, FetchEvent("request", loc.attempt, at, resp, 0))]
             /\ IF transient(resp)
                THEN /\ pc' = "f_sleep"
                     /\ UNCHANGED result
                ELSE /\ pc' = "f_done"
                     /\ result' = [items |-> IF resp = "ok" THEN RemotePosts(args.name)
                                                              ELSE <<>>,
                                    raised |-> ""]
    /\ UNCHANGED <<ID_CACHE, HASH_CACHE, WARM_CACHE, ram, disk, disabled, args,
                   raised, calls, ncalls>>

\* one attempt of the search fetcher, lines 134-166
SearchAttempt ==
    /\ pc = "f_attempt"
    /\ args.fetcher = "search"
    /\ \E wait \in 0..MaxLate :
         LET n     == args.outcomes[loc.attempt]
             posts == RemotePosts(args.name)
             at    == loc.now + wait
         IN  /\ loc' = [loc EXCEPT !.now = at,
                          !.events = Append(@, FetchEvent("request", loc.attempt, at,
                                                          IF n = -1 THEN "ok" ELSE "error", 0))]
             /\ IF n = -1
                THEN /\ pc' = "f_done"
                     /\ result' = [result EXCEPT !.items = @ \o posts]
                ELSE /\ pc' = "f_sleep"
                     /\ result' = [result EXCEPT !.items = @ \o SubSeq(posts, 1, n)]
    /\ UNCHANGED <<ID_CACHE, HASH_CACHE, WARM_CACHE, ram, disk, disabled, args,
                   raised, calls, ncalls>>

\* the except branch: sleep, then the next attempt or the end of the loop
\* (lines 106-119 and 167-181); asyncio.sleep returns no sooner than asked
FetcherSleep ==
    /\ pc = "f_sleep"
    /\ \E late \in 0..MaxLate :
         LET secs == delay(loc.attempt)
             at   == loc.now + secs + late
         IN  loc' = [attempt |-> loc.attempt + 1, now |-> at,
                     events |-> Append(loc.events,
                                       FetchEvent("sleep", loc.attempt, at, "", secs))]
    /\ IF loc.attempt < retries
       THEN /\ pc' = "f_attempt"
            /\ UNCHANGED result
       ELSE /\ pc' = "f_done"
            /\ result' = [result EXCEPT !.raised = IF args.fetcher = "search"
                                                   THEN search_exhausted ELSE ""]
    /\ UNCHANGED <<ID_CACHE, HASH_CACHE, WARM_CACHE, ram, disk, disabled, args,
                   raised, calls, ncalls>>

NextFetchers ==
    \/ ListingAttempt
    \/ SearchAttempt
    \/ FetcherSleep

SpecFetchers == InitFetchers /\ [][NextFetchers]_vars

----------------------------------------------------------------------------
(* Properties *)

\* the operations of a kind that the call in flight has issued
OpsOf(kinds) == {k \in 1..Len(calls) : calls[k].op \in kinds}

NetworkOps == {"subreddit", "search", "listing", "random"}

Present == pc = "done" /\ result.post # NoPost
Absent  == pc = "done" /\ result.post = NoPost

\* the entries of a cached list that have a media URL and whose source is,
\* case-insensitively, one of the requested sources
Matching(list) ==
    {e \in Range(list) :
        /\ e.media_url # ""
        /\ \E k \in 1..Len(args.subreddits) :
              lower(e.subreddit) = lower(args.subreddits[k])}

\* C1: fetch_meme never lets an exception escape: every call completes by
\* returning a MemeResult.
C1_NoExceptionEscapes == pc # "raised"

\* C2: immediately after a successful resolution, from whatever tier, the
\* returned item's id is in ID_CACHE and its resolved media URL is in
\* HASH_CACHE.
C2_DedupWrittenOnSuccess ==
    Present => /\ result.post.id \in ID_CACHE
               /\ result.post_dict.media_url \in HASH_CACHE

\* the positions of fetch_meme from which the next step applies is_valid_post
ValidityPoints == {"kw_search", "warm", "live", "ultimate"}

\* C3: whenever is_valid_post accepts an item, at that moment the item's id
\* is not in ID_CACHE and its URL is not in HASH_CACHE.
C3_AcceptedNotInDedup ==
    pc \in ValidityPoints =>
        \A p \in Posts :
            is_valid_post(p) => p.id \notin ID_CACHE /\ p.url \notin HASH_CACHE

\* C4: for every MemeResult returned, the item is absent if and only if the
\* error list is non-empty.
C4_AbsentIffErrors ==
    pc = "done" => (result.post = NoPost <=> result.errors # <<>>)

C4_Witness ==
    /\ pc = "done"
    /\ result.post = NoPost
    /\ result.errors = <<"disabled">>

\* C5: keyword cache precedence.  The engine is past the fast tier only when
\* the fast tier holds no matching entry, and past the persistent tier only
\* when neither tier does; an outcome labelled cache_ram is a matching entry
\* of the fast tier, an outcome is labelled cache_disk exactly when the fast
\* tier has no matching entry and the persistent tier has one, it is then a
\* matching entry of the persistent tier with that entry's own source, and a
\* cache outcome issues no network request.
C5_KeywordCachePrecedence ==
    LET fast == Matching(ram[<<args.keyword, args.nsfw>>])
        pers == Matching(disk[<<args.keyword, args.nsfw>>])
    IN  /\ pc \in {"kw_disk", "kw_disabled", "kw_subs", "kw_search", "kw_listing",
                   "kw_finish"} => fast = {}
        /\ pc \in {"kw_disabled", "kw_subs", "kw_search", "kw_listing", "kw_finish"}
              => pers = {}
        /\ (pc = "done" /\ args.keyword # <<>> /\ result.picked_via # "live") =>
              /\ fast # {} => result.listing = "cache_ram"
              /\ result.listing = "cache_ram" => result.post_dict \in fast
              /\ result.listing = "cache_disk" <=> (fast = {} /\ pers # {})
              /\ result.listing = "cache_disk" =>
                    /\ result.post_dict \in pers
                    /\ result.source_subreddit = result.post_dict.subreddit
              /\ result.listing \in {"cache_ram", "cache_disk"} =>
                    OpsOf(NetworkOps) = {}

C5_Witness ==
    /\ pc = "done"
    /\ args.keyword = Cat
    /\ result.listing = "cache_disk"
    /\ result.source_subreddit = pics
    /\ args.subreddits = <<Pics>>
    /\ ram[<<args.keyword, args.nsfw>>] = <<>>

\* C6: a keyword resolution for a pair the Keyword Cache reports disabled
\* never reaches the live stages, and the outcome of the short-circuit is
\* absent, with no network request and no record_failure.
C6_DisabledNeverSearches ==
    /\ (/\ <<args.keyword, args.nsfw>> \in disabled
        /\ pc \in {"kw_subs", "kw_search", "kw_listing", "kw_finish", "done"}
        /\ args.keyword # <<>>
        /\ Matching(ram[<<args.keyword, args.nsfw>>]) = {}
        /\ Matching(disk[<<args.keyword, args.nsfw>>]) = {}
        /\ OpsOf({"record_failure"}) = {})
       => /\ Absent
          /\ result.errors = <<"disabled">>
          /\ OpsOf(NetworkOps) = {}

C6_Witness ==
    /\ pc = "done"
    /\ <<args.keyword, args.nsfw>> \in disabled
    /\ result.errors = <<"disabled">>
    /\ OpsOf({"is_disabled"}) # {}

\* C7: the outcome returned for a disabled keyword carries a tier label
\* distinct from that of every other kind of outcome, in particular from the
\* keyword total-failure outcome and from the successful live-fallback tier.
C7_DisabledLabelDistinct ==
    (pc = "done" /\ result.errors = <<"disabled">>) =>
        /\ result.picked_via # KwFailResult.picked_via
        /\ result.picked_via # "fallback"

\* C8: when live search finds at least one valid item, the full list of
\* normalized valid results is written under (keyword, audience) into both
\* tiers before the return, and the returned item is a member of it.
C8_LiveSearchCachesBatch ==
    (pc = "done" /\ result.listing = "search") =>
        LET batch == [k \in 1..Len(loc.posts) |-> extract_post_data(loc.posts[k])]
        IN  /\ batch # <<>>
            /\ \E k \in OpsOf({"cache_to_ram"}) :
                  /\ calls[k].key = args.keyword
                  /\ calls[k].nsfw = args.nsfw
                  /\ calls[k].items = batch
            /\ \E k \in OpsOf({"save_to_disk"}) :
                  /\ calls[k].key = args.keyword
                  /\ calls[k].nsfw = args.nsfw
                  /\ calls[k].items = batch
            /\ ram[<<args.keyword, args.nsfw>>] = batch
            /\ Range(batch) \subseteq Range(disk[<<args.keyword, args.nsfw>>])
            /\ result.post_dict \in Range(batch)

C8_Witness ==
    /\ pc = "done"
    /\ result.listing = "search"
    /\ Len(loc.posts) = 2
    /\ result.post_dict = extract_post_data(P3)

\* C9: in the keyword path, when live search yields no valid item from any
\* source, the engine fetches the listing categories across all sources (and
\* returns an item of the first category that yields a valid one).
C9_ListingFallbackFetched ==
    (/\ pc = "done"
     /\ args.keyword # <<>>
     /\ Cardinality(OpsOf({"search"})) = Len(args.subreddits)
     /\ result.listing # "search")
    => \A n \in 1..Len(args.subreddits) :
          \E k \in OpsOf({"listing"}) : calls[k].key = args.subreddits[n]

\* C10: on keyword-path total failure record_failure(keyword, audience) is
\* called exactly once and the outcome is absent with an error;
\* record_failure is called by no resolution that succeeds or that
\* short-circuits on a disabled keyword.
C10_RecordFailureOnce ==
    LET fails == OpsOf({"record_failure"})
    IN  /\ Cardinality(fails) <= 1
        /\ \A k \in fails : calls[k].key = args.keyword /\ calls[k].nsfw = args.nsfw
        /\ (pc = "done" /\ result.errors = <<"no valid posts">>) =>
              Absent /\ Cardinality(fails) = 1
        /\ (Absent /\ args.keyword # <<>> /\ result.errors # <<"disabled">>) =>
              Cardinality(fails) = 1
        /\ (Present \/ (pc = "done" /\ result.errors = <<"disabled">>)) => fails = {}

C10_Witness ==
    /\ pc = "done"
    /\ result.errors = <<"no valid posts">>
    /\ Cardinality(OpsOf({"search"})) = 2
    /\ OpsOf({"record_failure"}) # {}

\* the cached random pool as the tiers hold it for the call in flight: the
\* fast tier, and the persistent-tier entries whose id is not in the fast tier
FastIds == {get_from_ram(RAND_SENTINEL, args.nsfw)[k].post_id :
               k \in 1..Len(get_from_ram(RAND_SENTINEL, args.nsfw))}

RandomPoolEntries ==
    Range(get_from_ram(RAND_SENTINEL, args.nsfw)) \cup
    {e \in Range(get_from_disk(RAND_SENTINEL, args.nsfw)) : e.post_id \notin FastIds}

\* its entries with a media URL that is not in HASH_CACHE
PoolServable ==
    {e \in RandomPoolEntries : e.media_url # "" /\ e.media_url \notin HASH_CACHE}

\* C11: in the no-keyword path, when the cached random pool holds an entry
\* whose media URL is not in HASH_CACHE, the step that leaves the pool stage
\* returns one such entry, labelled cache_ram when its id is in the fast tier
\* and cache_disk otherwise, pops no warm buffer and issues no network fetch.
C11_RandomPoolPrecedence ==
    [][(pc = "random_pool" /\ pc' # "random_pool" /\ PoolServable # {}) =>
          /\ pc' = "done"
          /\ result'.post_dict \in PoolServable
          /\ result'.post.id = result'.post_dict.post_id
          /\ result'.listing = IF result'.post_dict.post_id \in FastIds
                               THEN "cache_ram" ELSE "cache_disk"
          /\ WARM_CACHE' = WARM_CACHE
          /\ \A k \in 1..Len(calls') : calls'[k].op \notin NetworkOps]_vars

C11_Witness ==
    /\ pc = "done"
    /\ args.keyword = <<>>
    /\ result.branch = "random_pool"
    /\ result.listing = "cache_disk"
    /\ calls = << Op("get_from_ram", RAND_SENTINEL, args.nsfw, <<>>),
                  Op("get_from_disk", RAND_SENTINEL, args.nsfw, <<>>) >>

\* C12: warm buffer draining is destructive.  The step that scans the warm
\* buffers leaves of every buffer a prefix of what it held; of the items it
\* popped off the right end only the last one popped can be valid, and that
\* one is the item returned, with tier warm, from the buffer the outcome
\* names; when the top item of that buffer is valid the buffer loses exactly
\* one item (3 items before, 2 after).  A scan that meets a valid top item
\* returns with tier warm.  No other step touches a buffer, except the live
\* fetch, which adds its chosen item at the left end.
C12_WarmDrainDestructive ==
    [][/\ (pc = "warm" /\ pc' # "warm") =>
            /\ \A key \in WarmKeys :
                 LET old == WARM_CACHE[key]
                     new == WARM_CACHE'[key]
                 IN  /\ Len(new) <= Len(old)
                     /\ new = SubSeq(old, 1, Len(new))
                     /\ \A j \in (Len(new) + 1)..Len(old) :
                           is_valid_post(old[j]) =>
                              /\ j = Len(new) + 1
                              /\ pc' = "done"
                              /\ result'.post = old[j]
                              /\ result'.picked_via = "warm"
                              /\ key = <<result'.source_subreddit, result'.listing>>
            /\ pc' = "done" =>
                 LET key == <<result'.source_subreddit, result'.listing>>
                     old == WARM_CACHE[key]
                     new == WARM_CACHE'[key]
                 IN  /\ result'.picked_via = "warm"
                     /\ Len(new) < Len(old)
                     /\ result'.post = old[Len(new) + 1]
                     /\ is_valid_post(old[Len(old)]) => Len(new) = Len(old) - 1
            /\ (\E n \in 1..Len(loc.subs), l \in 1..Len(Listings) :
                  LET buf == WARM_CACHE[<<loc.subs[n], Listings[l]>>]
                  IN  buf # <<>> /\ is_valid_post(buf[Len(buf)]))
               => pc' = "done" /\ result'.picked_via = "warm"
       /\ pc # "warm" =>
            \A key \in WarmKeys :
               \/ WARM_CACHE'[key] = WARM_CACHE[key]
               \/ /\ pc = "live" /\ pc' = "done"
                  /\ key = <<result'.source_subreddit, result'.listing>>
                  /\ WARM_CACHE'[key] = <<result'.post>> \o WARM_CACHE[key]]_vars

C12_Witness ==
    /\ pc = "done"
    /\ ncalls = 1
    /\ result.picked_via = "warm"
    /\ result.source_subreddit = memes
    /\ result.listing = "hot"
    /\ Len(WARM_CACHE[<<memes, "hot">>]) = 2

\* C13: in the no-keyword live fallback, a step that fetches the listing of a
\* source fetches it for the next source in the shuffled order; when the
\* stream holds a valid item the call returns there with a present outcome
\* whose item is a valid item of the stream and whose tier is fallback, and
\* the warm buffer of (that source, the listing fetched) then contains the
\* chosen raw item; when the stream holds none the call does not return there.
C13_LiveFallbackSeedsWarm ==
    [][(pc = "live" /\ loc'.tried # loc.tried) =>
          LET req    == calls'[Len(calls) + 2]
              name   == loc.subs[loc.i]
              valid  == {p \in Range(req.items) : is_valid_post(p)}
          IN  /\ req.op = "listing"
              /\ req.key = name
              /\ loc'.tried = Append(loc.tried, name)
              /\ valid # {} =>
                    /\ pc' = "done"
                    /\ result'.post \in valid
                    /\ result'.picked_via = "fallback"
                    /\ result'.source_subreddit = name
                    /\ result'.listing \in Range(Listings)
                    /\ result'.post \in Range(WARM_CACHE'[<<name, result'.listing>>])
              /\ valid = {} => pc' # "done"]_vars

C13_Witness ==
    /\ pc = "done"
    /\ result.picked_via = "fallback"
    /\ result.post = P2
    /\ result.listing = "new"
    /\ \E k \in OpsOf({"listing"}) : calls[k].items = <<P1, P2>>
    /\ WARM_CACHE[<<memes, "new">>] = <<P2>>

\* the call in flight has ended, by a return or by an exception
Ended == pc \in {"done", "raised"}

\* C14: in the no-keyword last resort, when the random endpoint of the first
\* candidate source answers denied (NotFound / Forbidden) or unsupported
\* (BadRequest), the engine goes on to fetch the listing of that same source
\* and calls the random endpoint once only.
C14_DeniedRandomDegrades ==
    (Ended /\ loc.random_answer \in {"denied", "bad_request"}) =>
        /\ Cardinality(OpsOf({"random"})) = 1
        /\ \A r \in OpsOf({"random"}) :
              /\ calls[r].key = args.subreddits[1]
              /\ \E k \in OpsOf({"listing"}) : k > r /\ calls[k].key = calls[r].key

\* C15: when every tier of the no-keyword path fails, fetch_meme returns an
\* absent outcome with a non-empty error list whose attempted-sources list
\* holds every candidate source exactly once, in the order they were tried.
C15_TotalFailureListsSources ==
    (Ended /\ args.keyword = <<>> /\ ~Present) =>
        /\ pc = "done"
        /\ result.errors # <<>>
        /\ result.tried_subreddits = loc.subs
        /\ Len(result.tried_subreddits) = Len(args.subreddits)
        /\ Range(result.tried_subreddits) = Range(args.subreddits)

\* the positions of the valid items of a stream, in order
ValidPositions(stream) ==
    SelectSeq([k \in 1..Len(stream) |-> k], LAMBDA k : stream[k])

\* every sequence of values the randrange calls of a pass over n valid items
\* can return; randrange being uniform and the calls independent, each
\* sequence has the same probability
RECURSIVE DrawVectors(_)
DrawVectors(n) ==
    IF n = 0 THEN {<<>>}
    ELSE {Append(d, r) : d \in DrawVectors(n - 1), r \in randrange(n)}

\* the item the pass holds at its end when randrange returns draws[k] at the
\* k-th valid item
RECURSIVE PickOf(_, _, _, _)
PickOf(valid, draws, k, choice) ==
    IF k > Len(valid) THEN choice
    ELSE PickOf(valid, draws, k + 1, IF draws[k] = 0 THEN valid[k] ELSE choice)

\* C16: reservoir sampling is uniform.  For every stream of N valid items,
\* interleaved with any number of invalid ones, each valid item is the one
\* held at the end in exactly 1/N of the equally likely draw sequences; and
\* the pass ends holding the item its draws select, which is a valid item.
C16_ReservoirUniform ==
    LET valid == ValidPositions(args.stream)
        N     == Len(valid)
    IN  /\ (pc = "rs_scan" /\ loc.i = 0) =>
              \A x \in Range(valid) :
                 N * Cardinality({d \in DrawVectors(N) : PickOf(valid, d, 1, 0) = x})
                    = Cardinality(DrawVectors(N))
        /\ pc = "rs_done" =>
              /\ loc.draws \in DrawVectors(N)
              /\ loc.choice = PickOf(valid, loc.draws, 1, 0)
              /\ loc.choice \in Reservoir(valid, 1, 0)
              /\ N > 0 => loc.choice \in Range(valid)

C16_Witness ==
    /\ pc = "rs_done"
    /\ args.stream = <<TRUE, FALSE, TRUE, TRUE>>
    /\ loc.choice = 3
    /\ loc.draws = <<0, 0, 2>>

\* the requests a fetcher has made so far
Requests == {i \in 1..Len(loc.events) : loc.events[i].ev = "request"}

\* every attempt of the run meets a transient error
AllTransient ==
    IF args.fetcher = "listing"
    THEN \A k \in 1..retries : args.outcomes[k] = "error"
    ELSE \A k \in 1..retries : args.outcomes[k] # -1

\* C17: listing fetcher retry/backoff.  Attempt k+1 is made only after
\* attempt k failed transiently and no sooner than backoff * 2^(k-1) after
\* it, and when all `retries` attempts fail transiently the stream ends
\* empty, without an exception, after exactly `retries` requests.
C17_ListingBackoff ==
    args.fetcher = "listing" =>
        /\ \A i \in Requests :
              loc.events[i].attempt > 1 =>
                 \E j \in Requests :
                    /\ j < i
                    /\ loc.events[j].attempt = loc.events[i].attempt - 1
                    /\ loc.events[j].resp = "error"
                    /\ loc.events[i].at - loc.events[j].at
                          >= backoff * 2 ^ (loc.events[j].attempt - 1)
        /\ (pc = "f_done" /\ AllTransient) =>
              /\ result.items = <<>>
              /\ result.raised = ""
              /\ Cardinality(Requests) = retries

C17_Witness ==
    /\ pc = "f_done"
    /\ args.fetcher = "listing"
    /\ AllTransient
    /\ Cardinality(Requests) = 3
    /\ loc.events[5].at - loc.events[3].at = 2

\* C18: a listing request answered 403/404 is the last thing the fetcher
\* does: no request and no backoff sleep follows it, and the call is over.
C18_DeniedStopsRetries ==
    args.fetcher = "listing" =>
        \A i \in Requests :
           loc.events[i].resp = "denied" =>
              /\ i = Len(loc.events)
              /\ pc = "f_done"
              /\ loc.events[i].attempt = Cardinality(Requests)

C18_Witness ==
    /\ pc = "f_done"
    /\ args.fetcher = "listing"
    /\ args.outcomes = <<"error", "denied", "ok">>
    /\ Len(loc.events) = 3

\* what the consumer of the listing fetcher gets for a listing without results
EmptyListing == [items |-> <<>>, raised |-> ""]

\* C19: a listing answered 403/404 reaches the caller of the listing fetcher
\* as a signal it can tell apart from a listing that has no results.
C19_DeniedSurfacesUnavailable ==
    (/\ pc = "f_done"
     /\ args.fetcher = "listing"
     /\ loc.events[Len(loc.events)].resp = "denied")
    => result # EmptyListing

RequestOps == {"search", "listing", "random"}

\* C21: every request to a remote source (a listing fetch, a search, the call
\* of the single-source random endpoint) is immediately preceded in the call's
\* log by an acquisition of the rate throttle.
C21_ThrottleBeforeEveryRequest ==
    \A k \in OpsOf(RequestOps) : k > 1 /\ calls[k - 1].op = "throttle"

-----------------------------------------------------------------------------
(* _fetch_concurrent, run by run.  The calls, one per category, run at the
   same time under one gather, as the warm-up loop issues them (lines
   249-250); each is made with arguments that bind.
   args = [subreddits, max_concurrent]; loc.sem[c] is the semaphore of call c,
   loc.run[c][k] what fetch_one of source k of call c has come to; result[c]
   is how call c ended. *)

MaxWidth == 2    \* largest configured concurrency width (CONFIG "max_concurrent")

\* the categories of the calls that run at the same time (the default of
\* start_warmup's listings parameter)
ConcurrentListings == <<"hot", "new">>

\* Semaphore(CONFIG.get("max_concurrent", max_concurrent)), line 195: a new
\* semaphore for the call that executes the line
Semaphore(value) == value

\* a gather that lets the first exception of a child through
gather_Propagating(results) ==
    [raised |-> \E k \in DOMAIN results : results[k].kind = "exception",
     results |-> results]

\* asyncio.gather(*tasks, return_exceptions=True), line 204: exceptions come
\* back as results, in the order of the tasks
gather(results) == [raised |-> FALSE, results |-> results]

\* lines 205-209: the (name, posts) tuples among the results, keyed by name,
\* a later tuple replacing an earlier one of the same name
posts_by_sub(subreddits, results) ==
    LET tuples  == {k \in DOMAIN results : results[k].kind = "tuple"}
        last(n) == CHOOSE k \in tuples :
                      /\ subreddits[k] = n
                      /\ \A j \in tuples : subreddits[j] = n => j <= k
    IN  [n \in {subreddits[k] : k \in tuples} |-> results[last(n)].posts]

InitConcurrent ==
    /\ ID_CACHE = {}
    /\ HASH_CACHE = {}
    /\ WARM_CACHE = [k \in WarmKeys |-> <<>>]
    /\ ram = [k \in CacheKeys \X BOOLEAN |-> <<>>]
    /\ disk = [k \in CacheKeys \X BOOLEAN |-> <<>>]
    /\ disabled = {}
    /\ pc = "fc_gather"
    /\ \E subs \in SourceLists, width \in 1..MaxWidth :
          /\ args = [subreddits |-> subs, max_concurrent |-> width]
          /\ loc = [sem |-> [c \in DOMAIN ConcurrentListings |-> Semaphore(width)],
                    run |-> [c \in DOMAIN ConcurrentListings |->
                               [k \in DOMAIN subs |-> [kind |-> "waiting", posts |-> <<>>]]]]
    /\ result = [c \in DOMAIN ConcurrentListings |->
                   [state |-> "pending", posts_by_sub |-> <<>>]]
    /\ raised = ""
    /\ calls = <<>>
    /\ ncalls = 0

\* fetch_one enters `async with sem` (line 199) and starts its Listing
\* Fetcher run
FetchOneEnter ==
    /\ pc = "fc_gather"
    /\ \E c \in DOMAIN ConcurrentListings, k \in DOMAIN args.subreddits :
          /\ loc.run[c][k].kind = "waiting"
          /\ loc.sem[c] > 0
          /\ loc' = [loc EXCEPT !.sem[c] = @ - 1, !.run[c][k].kind = "in_flight"]
    /\ UNCHANGED <<ID_CACHE, HASH_CACHE, WARM_CACHE, ram, disk, disabled, pc, args, result,
                   raised, calls, ncalls>>

\* fetch_one leaves the block (lines 200-201): with the (name, posts) tuple
\* of its run, or with an exception that escaped the Listing Fetcher; the
\* semaphore is released either way
FetchOneLeave ==
    /\ pc = "fc_gather"
    /\ \E c \in DOMAIN ConcurrentListings, k \in DOMAIN args.subreddits :
          /\ loc.run[c][k].kind = "in_flight"
          /\ \/ \E posts \in ListingResults(args.subreddits[k]) :
                  loc' = [loc EXCEPT !.sem[c] = @ + 1,
                                     !.run[c][k] = [kind |-> "tuple", posts |-> posts]]
             \/ loc' = [loc EXCEPT !.sem[c] = @ + 1,
                                   !.run[c][k] = [kind |-> "exception", posts |-> <<>>]]
    /\ UNCHANGED <<ID_CACHE, HASH_CACHE, WARM_CACHE, ram, disk, disabled, pc, args, result,
                   raised, calls, ncalls>>

\* the gather of a call completes and the call builds its map, lines 204-215
FetchConcurrentReturn ==
    /\ pc = "fc_gather"
    /\ \E c \in DOMAIN ConcurrentListings :
          /\ result[c].state = "pending"
          /\ \A k \in DOMAIN args.subreddits :
                loc.run[c][k].kind \in {"tuple", "exception"}
          /\ LET g == gather(loc.run[c])
             IN  result' = [result EXCEPT ![c] =
                    IF g.raised
                    THEN [state |-> "raised", posts_by_sub |-> <<>>]
                    ELSE [state |-> "returned",
                          posts_by_sub |-> posts_by_sub(args.subreddits, g.results)]]
    /\ UNCHANGED <<ID_CACHE, HASH_CACHE, WARM_CACHE, ram, disk, disabled, pc, args, loc,
                   raised, calls, ncalls>>

NextConcurrent ==
    \/ FetchOneEnter
    \/ FetchOneLeave
    \/ FetchConcurrentReturn

SpecConcurrent == InitConcurrent /\ [][NextConcurrent]_vars

\* the Listing Fetcher runs in flight, over all the calls
InFlight ==
    {ck \in (DOMAIN ConcurrentListings) \X (DOMAIN args.subreddits) :
        loc.run[ck[1]][ck[2]].kind = "in_flight"}

\* C22: at every moment the Listing Fetcher runs in flight, counted over all
\* the calls of _fetch_concurrent executing at the same time, number at most
\* the configured concurrency width.
C22_SharedSemaphoreBound == Cardinality(InFlight) <= args.max_concurrent

\* C23: a call of _fetch_concurrent never ends by raising; once it has
\* returned, its map holds exactly the sources whose fetch_one completed,
\* each with the items of its run, whatever happened to the other sources.
C23_FailedSourceDoesNotAbort ==
    \A c \in DOMAIN ConcurrentListings :
       /\ result[c].state # "raised"
       /\ result[c].state = "returned" =>
             /\ DOMAIN result[c].posts_by_sub =
                   {args.subreddits[k] : k \in {j \in DOMAIN args.subreddits :
                                                  loc.run[c][j].kind = "tuple"}}
             /\ \A k \in DOMAIN args.subreddits :
                   loc.run[c][k].kind = "tuple" =>
                      result[c].posts_by_sub[args.subreddits[k]] = loc.run[c][k].posts

\* a call returned after the fetch of its first source raised, with the
\* items of its second source in the map
C23_Witness ==
    /\ Len(args.subreddits) = 2
    /\ result[1].state = "returned"
    /\ loc.run[1][1].kind = "exception"
    /\ loc.run[1][2].kind = "tuple"
    /\ DOMAIN result[1].posts_by_sub = {args.subreddits[2]}
    /\ result[1].posts_by_sub[args.subreddits[2]] = RemotePosts(args.subreddits[2])

\* C24: in the map a call of _fetch_concurrent returns, every key maps to a
\* non-empty item list.
C24_NoKeyForEmptySource ==
    \A c \in DOMAIN ConcurrentListings :
       result[c].state = "returned" =>
          \A n \in DOMAIN result[c].posts_by_sub : result[c].posts_by_sub[n] # <<>>

-----------------------------------------------------------------------------
(* The warm-up task: start_warmup, stop_warmup and the steps of _loop between
   its suspension points.  args.subreddits is the source list start_warmup
   is given; loc._warmup_task is the module's task handle (0 for None),
   loc.task[t] the state of the t-th task created, loc.last the operation
   that ran last. *)

MaxTasks == 2      \* warm-up tasks created in one behaviour
batch_size == 5

NoTask == [status |-> "unborn", at |-> "", i |-> 0, cancel_requested |-> FALSE]

\* deque(posts, maxlen=limit), line 255: the last limit items of posts
deque(posts) ==
    IF Len(posts) > limit THEN SubSeq(posts, Len(posts) - limit + 1, Len(posts))
    ELSE posts

\* the maps one call of _fetch_concurrent can return for a chunk
fetch_concurrent_maps(chunk) ==
    LET outcomes(k) ==
            {[kind |-> "tuple", posts |-> p] : p \in ListingResults(chunk[k])} \cup
            {[kind |-> "exception", posts |-> <<>>]}
        runs == {r \in [DOMAIN chunk -> UNION {outcomes(k) : k \in DOMAIN chunk}] :
                    \A k \in DOMAIN chunk : r[k] \in outcomes(k)}
    IN  {posts_by_sub(chunk, gather(r).results) : r \in runs}

\* a start that never finds a task running
already_running_Never(handle, task) == FALSE

\* the guard of start_warmup, line 227: `_warmup_task and not _warmup_task.done()`
already_running(handle, task) ==
    handle # 0 /\ task[handle].status = "running"

\* Task.cancel(), line 271: a request, delivered when the task next resumes;
\* nothing for a task that is done
cancel(t) ==
    IF t.status = "running" THEN [t EXCEPT !.cancel_requested = TRUE] ELSE t

\* awaits that return as if no cancellation had been requested
interrupted_Never(t) == FALSE

\* CancelledError is raised at the await the task is suspended in (lines 237,
\* 250, 259, 262) when a cancellation was requested
interrupted(t) == t.cancel_requested

InitWarmup ==
    /\ ID_CACHE = {}
    /\ HASH_CACHE = {}
    /\ WARM_CACHE = [k \in WarmKeys |-> <<>>]
    /\ ram = [k \in CacheKeys \X BOOLEAN |-> <<>>]
    /\ disk = [k \in CacheKeys \X BOOLEAN |-> <<>>]
    /\ disabled = {}
    /\ pc = "warmup"
    /\ \E subs \in SourceLists : args = [subreddits |-> subs]
    /\ loc = [_warmup_task |-> 0, task |-> [t \in 1..MaxTasks |-> NoTask], last |-> ""]
    /\ result = NoResult
    /\ raised = ""
    /\ calls = <<>>
    /\ ncalls = 0

\* start_warmup, lines 218-265: the guard, then create_task(_loop())
start_warmup ==
    /\ pc = "warmup"
    /\ IF already_running(loc._warmup_task, loc.task)
       THEN loc' = [loc EXCEPT !.last = "start_skipped"]
       ELSE \E t \in 1..MaxTasks :
              /\ loc.task[t].status = "unborn"
              /\ \A u \in 1..(t - 1) : loc.task[u].status # "unborn"
              /\ loc' = [loc EXCEPT !._warmup_task = t,
                                    !.task[t] = [NoTask EXCEPT !.status = "running",
                                                               !.at = "sleep_settle"],
                                    !.last = "start"]
    /\ UNCHANGED <<ID_CACHE, HASH_CACHE, WARM_CACHE, ram, disk, disabled, pc, args, result,
                   raised, calls, ncalls>>

\* stop_warmup, lines 267-272
stop_warmup ==
    /\ pc = "warmup"
    /\ IF loc._warmup_task # 0
       THEN loc' = [loc EXCEPT !.task[loc._warmup_task] = cancel(@),
                               !._warmup_task = 0,
                               !.last = "stop"]
       ELSE loc' = [loc EXCEPT !.last = "stop_none"]
    /\ UNCHANGED <<ID_CACHE, HASH_CACHE, WARM_CACHE, ram, disk, disabled, pc, args, result,
                   raised, calls, ncalls>>

\* _loop resumes from the await it is suspended in and runs to the next one
\* (lines 235-262).  Line 249 calls _fetch_concurrent with session=: when the
\* call does not bind, the TypeError ends the task
LoopResume ==
    /\ pc = "warmup"
    /\ \E t \in 1..MaxTasks :
         LET me    == loc.task[t]
             subs  == args.subreddits
             chunk == SubSeq(subs, me.i + 1,
                             IF me.i + batch_size < Len(subs) THEN me.i + batch_size
                                                               ELSE Len(subs))
             fetch(i) == IF fetch_concurrent_binds
                         THEN [me EXCEPT !.at = "gather", !.i = i]
                         ELSE [me EXCEPT !.status = "failed", !.at = ""]
         IN  /\ me.status = "running"
             /\ IF interrupted(me)
                THEN /\ loc' = [loc EXCEPT !.task[t] = [me EXCEPT !.status = "cancelled",
                                                                   !.at = ""],
                                           !.last = "loop"]
                     /\ UNCHANGED WARM_CACHE
                ELSE IF me.at \in {"sleep_settle", "sleep_interval"}
                THEN /\ loc' = [loc EXCEPT !.task[t] = fetch(0), !.last = "loop"]
                     /\ UNCHANGED WARM_CACHE
                ELSE IF me.at = "gather"
                THEN /\ \E res \in [DOMAIN ConcurrentListings -> fetch_concurrent_maps(chunk)] :
                          WARM_CACHE' =
                             [k \in WarmKeys |->
                                IF \E c \in DOMAIN ConcurrentListings :
                                      ConcurrentListings[c] = k[2] /\ k[1] \in DOMAIN res[c]
                                THEN deque(res[CHOOSE c \in DOMAIN ConcurrentListings :
                                                 ConcurrentListings[c] = k[2]][k[1]])
                                ELSE WARM_CACHE[k]]
                     /\ loc' = [loc EXCEPT !.task[t].at = "sleep_batch", !.last = "loop"]
                ELSE /\ loc' = [loc EXCEPT !.task[t] =
                                              IF me.i + batch_size < Len(subs)
                                              THEN fetch(me.i + batch_size)
                                              ELSE [me EXCEPT !.at = "sleep_interval"],
                                           !.last = "loop"]
                     /\ UNCHANGED WARM_CACHE
    /\ UNCHANGED <<ID_CACHE, HASH_CACHE, ram, disk, disabled, pc, args, result,
                   raised, calls, ncalls>>

NextWarmup ==
    \/ start_warmup
    \/ stop_warmup
    \/ LoopResume

SpecWarmup == InitWarmup /\ [][NextWarmup]_vars

\* the loops that run and have not been stopped
LiveLoops == {t \in 1..MaxTasks : loc.task[t].status = "running" /\ ~loc.task[t].cancel_requested}

\* C25: a start_warmup call made while the stored task is still running
\* creates no task and leaves the handle as it was, and at no time are two
\* warm-up loops running that have not been stopped.
C25_StartIdempotent ==
    [][/\ (/\ loc' # loc
           /\ loc'.last \in {"start", "start_skipped"}
           /\ loc._warmup_task # 0
           /\ loc.task[loc._warmup_task].status = "running")
          => /\ loc'._warmup_task = loc._warmup_task
             /\ loc'.task = loc.task
       /\ Cardinality(LiveLoops') <= 1]_vars

\* a start that found the stored task running and was skipped
C25_Witness ==
    /\ loc.last = "start_skipped"
    /\ loc._warmup_task # 0
    /\ loc.task[loc._warmup_task].status = "running"

\* C26: a warm-up loop that was started ends only by being cancelled: no
\* task created by start_warmup ever finishes with an exception of its own.
C26_LoopKeepsRunning ==
    \A t \in 1..MaxTasks : loc.task[t].status # "failed"

\* C27: a loop that stop_warmup has cancelled does nothing more than end as
\* cancelled when it resumes, and writes no buffer in doing so; a loop that
\* has ended stays ended; and any step leaves each warm buffer either as it
\* was or holding one complete fetched list of its source, capped at the limit.
C27_StopEndsWrites ==
    [][/\ \A t \in 1..MaxTasks :
             /\ (/\ loc.task[t].status = "running"
                 /\ loc.task[t].cancel_requested
                 /\ loc'.task[t] # loc.task[t])
                => /\ loc'.task[t].status = "cancelled"
                   /\ WARM_CACHE' = WARM_CACHE
             /\ loc.task[t].status \in {"cancelled", "failed"}
                => loc'.task[t] = loc.task[t]
       /\ \A k \in WarmKeys :
             \/ WARM_CACHE'[k] = WARM_CACHE[k]
             \/ WARM_CACHE'[k] \in {deque(p) : p \in ListingResults(k[1])}]_vars

\* stop_warmup cancelled a running loop, the handle is cleared and the loop
\* has ended as cancelled
C27_Witness ==
    /\ loc._warmup_task = 0
    /\ \E t \in 1..MaxTasks : loc.task[t].status = "cancelled" /\ loc.task[t].cancel_requested

-----------------------------------------------------------------------------
(* One warm buffer under the pushes of live fetches and the pops of warm
   scans, which calls running at the same time interleave.  The buffer is
   WARM_CACHE[BufferKey]; loc.ops counts the operations, loc.last is the last
   one and loc.item the item it pushed or popped. *)

MaxOps == 3      \* pushes and pops in one behaviour

BufferKey == <<memes, "hot">>

\* a buffer at capacity, its right end distinct from the rest
FullBuffer == [k \in 1..limit |-> IF k = limit THEN P1 ELSE P2]

\* the item deque.pop() returns (lines 596 and cogs/meme.py:195): the right end
popped(buf) == buf[Len(buf)]

InitBuffer ==
    /\ ID_CACHE = {}
    /\ HASH_CACHE = {}
    /\ \E b \in WarmBuffers \cup {FullBuffer} :
          WARM_CACHE = [k \in WarmKeys |-> IF k = BufferKey THEN b ELSE <<>>]
    /\ ram = [k \in CacheKeys \X BOOLEAN |-> <<>>]
    /\ disk = [k \in CacheKeys \X BOOLEAN |-> <<>>]
    /\ disabled = {}
    /\ pc = "buffer"
    /\ args = NoArgs
    /\ loc = [ops |-> 0, last |-> "", item |-> NoPost]
    /\ result = NoResult
    /\ raised = ""
    /\ calls = <<>>
    /\ ncalls = 0

\* a live fetch seeds the buffer with the item it chose, lines 628-630
BufferPush ==
    /\ pc = "buffer"
    /\ loc.ops < MaxOps
    /\ \E choice_post \in Range(RemotePosts(memes)) :
          /\ WARM_CACHE' = [WARM_CACHE EXCEPT ![BufferKey] = appendleft(@, choice_post)]
          /\ loc' = [ops |-> loc.ops + 1, last |-> "push", item |-> choice_post]
    /\ UNCHANGED <<ID_CACHE, HASH_CACHE, ram, disk, disabled, pc, args, result,
                   raised, calls, ncalls>>

\* a warm scan takes the next item of the buffer, lines 594-596
BufferPop ==
    /\ pc = "buffer"
    /\ loc.ops < MaxOps
    /\ WARM_CACHE[BufferKey] # <<>>
    /\ WARM_CACHE' = [WARM_CACHE EXCEPT ![BufferKey] = pop(@)]
    /\ loc' = [ops |-> loc.ops + 1, last |-> "pop", item |-> popped(WARM_CACHE[BufferKey])]
    /\ UNCHANGED <<ID_CACHE, HASH_CACHE, ram, disk, disabled, pc, args, result,
                   raised, calls, ncalls>>

NextBuffer ==
    \/ BufferPush
    \/ BufferPop

SpecBuffer == InitBuffer /\ [][NextBuffer]_vars

\* C28: after a push the pushed item is the one the next pop returns, and a
\* push into a buffer at capacity keeps the item that was next to be popped.
C28_StackDiscipline ==
    [][loc'.last = "push" =>
          LET before == WARM_CACHE[BufferKey]
              after  == WARM_CACHE'[BufferKey]
          IN  /\ popped(after) = loc'.item
              /\ Len(before) = limit => popped(before) \in Range(after)]_vars

-----------------------------------------------------------------------------
(* Exclusions and keyword matching of whole fetch_meme calls (Spec) *)

\* C29: whenever fetch_meme ends with a present outcome, from whatever tier,
\* the id of the returned item is not in the exclude_ids the caller passed.
C29_ExcludedNeverReturned ==
    Present => result.post.id \notin args.exclude_ids

\* C30: an item a keyword call returns through the live tier has a title
\* that contains the keyword, both lower-cased, and so has every record the
\* call writes into the Keyword Cache under that keyword.
C30_LiveKeywordTitleMatches ==
    args.has_keyword =>
       /\ (Present /\ result.picked_via = "live") =>
             Contains(lower(args.keyword), lower(result.post.title))
       /\ \A k \in OpsOf({"cache_to_ram", "save_to_disk"}) :
             \A n \in 1..Len(calls[k].items) :
                Contains(lower(args.keyword), lower(calls[k].items[n].title))

\* the keyword "Cat" served live with the item titled "a CAT", which was
\* also written to both cache tiers under the keyword
C30_Witness ==
    /\ Present
    /\ args.keyword = Cat
    /\ result.picked_via = "live"
    /\ result.post = P3
    /\ \E k \in OpsOf({"cache_to_ram"}) :
          /\ calls[k].key = Cat
          /\ \E n \in 1..Len(calls[k].items) : calls[k].items[n].title = P3.title
    /\ \E k \in OpsOf({"save_to_disk"}) :
          /\ calls[k].key = Cat
          /\ \E n \in 1..Len(calls[k].items) : calls[k].items[n].title = P3.title

-----------------------------------------------------------------------------
(* Audiences, sources, the keyword path's frame, the random pool (Spec) *)

CacheOps == {"get_from_ram", "get_from_disk", "is_disabled", "cache_to_ram",
             "save_to_disk", "record_failure"}

\* C31: in every step of a fetch_meme call made with audience flag A, each
\* Keyword Cache operation in the call's log carries A, and every fast-tier
\* entry, persistent-tier entry and disable state stored under the other
\* audience is left as it was.
C31_AudienceIndependence ==
    [][(pc # "idle" \/ pc' # "idle") =>
          LET A == IF pc = "idle" THEN args'.nsfw ELSE args.nsfw
          IN  /\ \A k \in 1..Len(calls') :
                    calls'[k].op \in CacheOps => calls'[k].nsfw = A
              /\ \A key \in CacheKeys :
                    /\ ram'[<<key, ~A>>] = ram[<<key, ~A>>]
                    /\ disk'[<<key, ~A>>] = disk[<<key, ~A>>]
                    /\ (<<key, ~A>> \in disabled') = (<<key, ~A>> \in disabled)]_vars

\* a keyword call of the other audience has served and cached its batch
\* while the batch an earlier call cached under the general audience is
\* still stored
C31_Witness ==
    /\ Present
    /\ args.keyword = Cat
    /\ args.nsfw
    /\ result.picked_via = "live"
    /\ ram[<<Cat, TRUE>>] # <<>>
    /\ ram[<<Cat, FALSE>>] # <<>>
    /\ ram[<<Cat, TRUE>>] # ram[<<Cat, FALSE>>]

\* C32: every warm buffer holds at most limit items, whatever pushes and
\* pops have happened to it.
C32_BufferWithinCapacity ==
    \A k \in WarmKeys : Len(WARM_CACHE[k]) <= limit

\* a push has just been made into the buffer at capacity, which is still at
\* capacity and holds the pushed item
C32_Witness ==
    /\ loc.last = "push"
    /\ Len(WARM_CACHE[BufferKey]) = limit
    /\ WARM_CACHE[BufferKey][1] = loc.item
    /\ WARM_CACHE[BufferKey][limit] = P2

\* C33: whenever fetch_meme ends with a present outcome, from whatever tier,
\* the outcome's source, lower-cased, is one of the call's candidate sources,
\* lower-cased.
C33_OriginAmongCandidates ==
    Present => lower(result.source_subreddit) \in subreddit_names

\* C34: in every step of a call made with a non-empty keyword no warm buffer
\* changes, the call is at no stage of the random path, its log holds no
\* request to the random endpoint and no operation on the cached random
\* pool, and its outcome is labelled neither warm nor random.
C34_KeywordNeverRandomPath ==
    [][(args.has_keyword \/ args'.has_keyword) =>
          /\ WARM_CACHE' = WARM_CACHE
          /\ pc' \notin {"random_pool", "warm", "live", "ultimate"}
          /\ \A k \in 1..Len(calls') :
                /\ calls'[k].op # "random"
                /\ calls'[k].key # RAND_SENTINEL
          /\ result'.picked_via \notin {"warm", "random"}]_vars

\* a keyword call has ended with the absent outcome of the keyword path after
\* its searches found nothing, while the random pool held an entry it could
\* have served
C34_Witness ==
    /\ Absent
    /\ args.has_keyword
    /\ result.errors = <<"no valid posts">>
    /\ \E k \in OpsOf({"search"}) : TRUE
    /\ random_valid(get_from_ram(RAND_SENTINEL, args.nsfw)) # <<>>

-----------------------------------------------------------------------------
(* Two no-keyword fetch_meme calls on one event loop, step by step between
   their awaits.  args holds the arguments both calls are made with;
   loc[i] is the frame of call i: where it is suspended (at), its snapshot of
   the random pool, the item it has selected and the tier it selected it in;
   result[i] is the MemeResult of call i. *)

Resolutions == {1, 2}

NoFrame == [at |-> "idle", ram_random |-> <<>>, combined_random |-> <<>>,
            ram_random_ids |-> {}, random_cache_ids |-> {}, random_cache_urls |-> {},
            post |-> NoPost, via |-> "", listing |-> ""]

\* is_valid_post (lines 374-410) as the closure of the call with frame me:
\* no keyword, no exclude_ids
is_valid_post_of(p, me) ==
    /\ p # NoPost
    /\ p.url # ""
    /\ p.url \notin HASH_CACHE
    /\ ~(p.id # "" /\ p.id \in me.random_cache_ids)
    /\ p.url \notin me.random_cache_urls
    /\ ~(\E b \in BlockedDomains : Contains(b, lower(p.domain)))

\* lines 589-597 for the call with frame me: pop the buffers in
\* listing-then-source order until a popped item is valid
RECURSIVE WarmScanOf(_, _, _, _)
WarmScanOf(w, li, si, me) ==
    IF li > Len(Listings)
    THEN [warm |-> w, post |-> NoPost, listing |-> ""]
    ELSE IF si > Len(args.subreddits)
    THEN WarmScanOf(w, li + 1, 1, me)
    ELSE LET key == <<args.subreddits[si], Listings[li]>>
             buf == w[key]
         IN  IF buf = <<>>
             THEN WarmScanOf(w, li, si + 1, me)
             ELSE LET rest == [w EXCEPT ![key] = pop(buf)]
                  IN  IF is_valid_post_of(buf[Len(buf)], me)
                      THEN [warm |-> rest, post |-> buf[Len(buf)], listing |-> Listings[li]]
                      ELSE WarmScanOf(rest, li, si, me)

InitInterleaved ==
    /\ ID_CACHE = {}
    /\ HASH_CACHE = {}
    /\ WARM_CACHE = [k \in WarmKeys |-> <<>>]
    /\ ram = [k \in CacheKeys \X BOOLEAN |-> <<>>]
    /\ disk = [k \in CacheKeys \X BOOLEAN |-> <<>>]
    /\ disabled = {}
    /\ pc = "interleaved"
    /\ args = [NoArgs EXCEPT !.subreddits = <<memes>>]
    /\ loc = [i \in Resolutions |-> NoFrame]
    /\ result = [i \in Resolutions |-> NoResult]
    /\ raised = ""
    /\ calls = <<>>
    /\ ncalls = 0

\* lines 362-366: the call starts, reads the fast tier's random pool and
\* awaits the persistent tier's
ResolutionBegin ==
    /\ \E i \in Resolutions :
          /\ loc[i].at = "idle"
          /\ loc' = [loc EXCEPT ![i] =
                        [NoFrame EXCEPT !.at = "get_from_disk",
                                        !.ram_random = get_from_ram(RAND_SENTINEL, args.nsfw)]]
    /\ UNCHANGED <<ID_CACHE, HASH_CACHE, WARM_CACHE, ram, disk, disabled, pc, args, result,
                   raised, calls, ncalls>>

\* lines 366-610 up to the next await: the persistent pool arrives, the
\* snapshot is built, the random pool is tried, then the warm buffers are
\* scanned; a valid warm item sends the call into the normalizer, none sends
\* it into the listing fetch of the live tier
ResolutionPoolAndWarm ==
    /\ \E i \in Resolutions :
          LET ram_random == loc[i].ram_random
              disk_random == get_from_disk(RAND_SENTINEL, args.nsfw)
              ram_random_ids ==
                  {ram_random[k].post_id : k \in 1..Len(ram_random)} \ {""}
              disk_random_ids ==
                  {disk_random[k].post_id : k \in 1..Len(disk_random)} \ {""}
              combined_random ==
                  ram_random \o
                  SelectSeq(disk_random, LAMBDA e : e.post_id \notin ram_random_ids)
              me == [loc[i] EXCEPT
                       !.combined_random = combined_random,
                       !.ram_random_ids = ram_random_ids,
                       !.random_cache_ids = ram_random_ids \cup disk_random_ids,
                       !.random_cache_urls =
                           {combined_random[k].media_url :
                               k \in 1..Len(combined_random)} \ {""}]
              valid == random_valid(combined_random)
              scan == WarmScanOf(WARM_CACHE, 1, 1, me)
          IN  /\ loc[i].at = "get_from_disk"
              /\ IF valid # <<>>
                 THEN \E k \in 1..Len(valid) :
                        LET chosen == valid[k]
                        IN  /\ HASH_CACHE' = HASH_CACHE \cup {chosen.media_url}
                            /\ loc' = [loc EXCEPT ![i] = [me EXCEPT !.at = "done"]]
                            /\ result' = [result EXCEPT ![i] =
                                  MemeResult(Cached(chosen), chosen.subreddit,
                                             IF chosen.post_id \in ram_random_ids
                                             THEN "cache_ram" ELSE "cache_disk",
                                             IF chosen.subreddit # <<>>
                                             THEN <<chosen.subreddit>> ELSE <<>>,
                                             <<>>, "cache", chosen, "random_pool")]
                            /\ UNCHANGED WARM_CACHE
                 ELSE /\ WARM_CACHE' = scan.warm
                      /\ loc' = [loc EXCEPT ![i] =
                            IF scan.post # NoPost
                            THEN [me EXCEPT !.at = "extract_fn", !.post = scan.post,
                                            !.via = "warm", !.listing = scan.listing]
                            ELSE [me EXCEPT !.at = "listing"]]
                      /\ UNCHANGED <<HASH_CACHE, result>>
    /\ UNCHANGED <<ID_CACHE, ram, disk, disabled, pc, args, raised, calls, ncalls>>

\* lines 612-626: the listing of the live tier has arrived and the reservoir
\* pass over its valid items has run; a chosen item sends the call into the
\* normalizer, none sends it on to the random endpoint
ResolutionLive ==
    /\ \E i \in Resolutions :
          /\ loc[i].at = "listing"
          /\ \E listing_choice \in Range(Listings),
                items \in ListingResults(args.subreddits[1]) :
               \E choice_post \in
                     Reservoir(SelectSeq(items, LAMBDA p : is_valid_post_of(p, loc[i])),
                               1, NoPost) :
                  loc' = [loc EXCEPT ![i] =
                     IF choice_post # NoPost
                     THEN [@ EXCEPT !.at = "extract_fn", !.post = choice_post,
                                    !.via = "fallback", !.listing = listing_choice]
                     ELSE [@ EXCEPT !.at = "simple_random_meme"]]
    /\ UNCHANGED <<ID_CACHE, HASH_CACHE, WARM_CACHE, ram, disk, disabled, pc, args, result,
                   raised, calls, ncalls>>

\* lines 647-651 and 667: simple_random_meme has answered
ResolutionUltimate ==
    /\ \E i \in Resolutions :
          /\ loc[i].at = "simple_random_meme"
          /\ \E out \in simple_random_meme(args.subreddits[1]) :
                IF out.raised
                THEN /\ loc' = [loc EXCEPT ![i].at = "raised"]
                     /\ UNCHANGED result
                ELSE IF is_valid_post_of(out.post, loc[i])
                THEN /\ loc' = [loc EXCEPT ![i] =
                            [@ EXCEPT !.at = "extract_fn", !.post = out.post,
                                      !.via = "random", !.listing = "random"]]
                     /\ UNCHANGED result
                ELSE /\ loc' = [loc EXCEPT ![i].at = "done"]
                     /\ result' = [result EXCEPT ![i] =
                           MemeResult(NoPost, <<>>, "", <<args.subreddits[1]>>,
                                      <<"All fallback failed">>, "none", NoData, "none")]
    /\ UNCHANGED <<ID_CACHE, HASH_CACHE, WARM_CACHE, ram, disk, disabled, pc, args,
                   raised, calls, ncalls>>

\* the normalizer returns (lines 598, 627, 652); the live tier seeds the warm
\* buffer (628-630); the record joins the fast tier's random pool and the
\* call awaits the persistent write (599-603, 632-636, 653-657)
ResolutionExtracted ==
    /\ \E i \in Resolutions :
          LET me == loc[i]
              data == extract_post_data(me.post)
              existing_rand == append_rand(get_from_ram(RAND_SENTINEL, args.nsfw), data)
          IN  /\ me.at = "extract_fn"
              /\ WARM_CACHE' =
                    IF me.via = "fallback"
                    THEN [WARM_CACHE EXCEPT ![<<args.subreddits[1], me.listing>>] =
                             appendleft(@, me.post)]
                    ELSE WARM_CACHE
              /\ ram' = cache_to_ram(ram, RAND_SENTINEL, existing_rand, args.nsfw)
              /\ loc' = [loc EXCEPT ![i].at = "save_to_disk"]
    /\ UNCHANGED <<ID_CACHE, HASH_CACHE, disk, disabled, pc, args, result,
                   raised, calls, ncalls>>

\* the persistent write returns; the URL enters HASH_CACHE and the call
\* returns its item (lines 603-610, 636-643, 657-664)
ResolutionReturn ==
    /\ \E i \in Resolutions :
          LET me == loc[i]
              data == extract_post_data(me.post)
          IN  /\ me.at = "save_to_disk"
              /\ disk' = save_to_disk(disk, RAND_SENTINEL, <<data>>, args.nsfw)
              /\ HASH_CACHE' = IF me.post.url # "" THEN HASH_CACHE \cup {me.post.url}
                                                   ELSE HASH_CACHE
              /\ loc' = [loc EXCEPT ![i].at = "done"]
              /\ result' = [result EXCEPT ![i] =
                    MemeResult(me.post, args.subreddits[1], me.listing,
                               <<args.subreddits[1]>>, <<>>, me.via, data, me.via)]
    /\ UNCHANGED <<ID_CACHE, WARM_CACHE, ram, disabled, pc, args, raised, calls, ncalls>>

NextInterleaved ==
    \/ ResolutionBegin
    \/ ResolutionPoolAndWarm
    \/ ResolutionLive
    \/ ResolutionUltimate
    \/ ResolutionExtracted
    \/ ResolutionReturn

SpecInterleaved == InitInterleaved /\ [][NextInterleaved]_vars

\* C35: two calls that both returned an item through the warm, fallback or
\* random tier did not return items with the same URL.
C35_InterleavedNeverSameItem ==
    \A i, j \in Resolutions :
       (/\ i # j
        /\ result[i].post # NoPost
        /\ result[j].post # NoPost
        /\ result[i].picked_via \in {"warm", "fallback", "random"}
        /\ result[j].picked_via \in {"warm", "fallback", "random"})
       => result[i].post.url # result[j].post.url

\* C36: when the warm stage of a call ends without an item, every buffer it
\* visited (each source of the call with each listing) is empty, and the
\* buffers of other sources are as they were.
C36_FailedWarmStageDrains ==
    [][(pc = "warm" /\ pc' = "live") =>
          \A key \in WarmKeys :
             IF key[1] \in Range(loc.subs)
             THEN WARM_CACHE'[key] = <<>>
             ELSE WARM_CACHE'[key] = WARM_CACHE[key]]_vars

\* the warm stage of a call for memes has just ended without an item while
\* a URL is in HASH_CACHE: the buffers of memes are empty, the buffer of the
\* other source still holds its item
C36_Witness ==
    /\ pc = "live"
    /\ loc.tried = <<>>
    /\ args.subreddits = <<memes>>
    /\ HASH_CACHE = {P1.url}
    /\ \A l \in Range(Listings) : WARM_CACHE[<<memes, l>>] = <<>>
    /\ WARM_CACHE[<<Pics, "new">>] = <<P3>>

\* C37: under every interleaving of no-keyword calls the fast tier's random
\* pool of an audience holds no two entries with the same post id.
C37_RandomPoolIdsDistinct ==
    \A nsfw \in BOOLEAN :
       LET pool == get_from_ram(RAND_SENTINEL, nsfw)
       IN  \A m, n \in 1..Len(pool) : m # n => pool[m].post_id # pool[n].post_id

\* two interleaved calls have both returned the same item and the pool holds
\* its record once
C37_Witness ==
    /\ result[1].post # NoPost
    /\ result[1].post = result[2].post
    /\ result[1].picked_via \in {"warm", "fallback", "random"}
    /\ result[2].picked_via \in {"warm", "fallback", "random"}
    /\ get_from_ram(RAND_SENTINEL, args.nsfw) = <<extract_post_data(result[1].post)>>

-----------------------------------------------------------------------------
(* The Search Fetcher's stream over its retries (SpecFetchers) *)

\* C38: the results one run of the Search Fetcher has yielded, over all its
\* attempts, hold no item twice.
C38_SearchYieldsOnce ==
    args.fetcher = "search" =>
       \A m, n \in 1..Len(result.items) : m # n => result.items[m] # result.items[n]

-----------------------------------------------------------------------------
(* The message registry of helpers/db.py after init(): the queue of records,
   the periodic flusher task and close(), as tasks of one event loop.  pc
   holds the position of the flusher and of close(); loc holds _conn and
   _queue, the local batch of each running _flush_once, the connection's open
   transaction, the committed rows, and the records register_meme_message
   has queued.  A record is the number of the registration that made it. *)

MaxRecords == 3      \* calls of register_meme_message in one behaviour

\* where _flush_once waits: for BEGIN, for executemany, for commit (lines 325-335)
FlushAwaits == {"begin", "executemany", "commit"}

\* the state init() leaves, lines 29-102
InitRegistry ==
    /\ ID_CACHE = {}
    /\ HASH_CACHE = {}
    /\ WARM_CACHE = [k \in WarmKeys |-> <<>>]
    /\ ram = [k \in CacheKeys \X BOOLEAN |-> <<>>]
    /\ disk = [k \in CacheKeys \X BOOLEAN |-> <<>>]
    /\ disabled = {}
    /\ pc = [flusher |-> "sleep", close |-> "idle"]
    /\ args = NoArgs
    /\ loc = [_conn |-> TRUE, _queue |-> TRUE, items |-> <<>>, batch |-> <<>>, in_txn |-> FALSE, txn |-> {}, rows |-> {}, queued |-> {}, refused |-> {}, n |-> 0]
    /\ result = NoResult
    /\ raised = ""
    /\ calls = <<>>
    /\ ncalls = 0

\* register_meme_message, lines 124-146: refuses without a connection or a
\* queue, else puts the record on the queue
register_meme_message ==
    /\ loc.n < MaxRecords
    /\ LET record == loc.n + 1
       IN  IF ~loc._conn \/ ~loc._queue
           THEN loc' = [loc EXCEPT !.n = record, !.refused = @ \cup {record}]
           ELSE loc' = [loc EXCEPT !.n = record, !.items = Append(@, record), !.queued = @ \cup {record}]
    /\ UNCHANGED pc
    /\ UNCHANGED <<ID_CACHE, HASH_CACHE, WARM_CACHE, ram, disk, disabled, args, result,
                   raised, calls, ncalls>>

\* _flush_once up to its first wait, lines 313-325: the whole queue moves into
\* the local batch; with an empty batch the flush is over
FlushDrain(me, over) ==
    IF loc.items = <<>>
    THEN /\ pc' = [pc EXCEPT ![me] = over]
         /\ loc' = IF me = "close" THEN [loc EXCEPT !._queue = FALSE] ELSE loc
    ELSE /\ pc' = [pc EXCEPT ![me] = "begin"]
         /\ loc' = [loc EXCEPT !.items = <<>>, !.batch = loc.items]

\* what the statement _flush_once waits for does to the connection, lines 325-335
Executed(at, l) ==
    CASE at = "begin"       -> [l EXCEPT !.in_txn = TRUE]
      [] at = "executemany" -> [l EXCEPT !.txn = @ \cup Range(l.batch)]
      [] at = "commit"      -> [l EXCEPT !.rows = @ \cup l.txn, !.txn = {}, !.in_txn = FALSE]
      [] OTHER              -> l

\* the wait after the one at `at`, or the end of the flush
AfterAwait(at, over) ==
    CASE at = "begin"       -> "executemany"
      [] at = "executemany" -> "commit"
      [] OTHER              -> over

\* _flusher wakes from its sleep and starts a flush, lines 341-345
FlusherWake ==
    /\ pc.close = "idle"
    /\ pc.flusher = "sleep"
    /\ FlushDrain("flusher", "sleep")
    /\ UNCHANGED <<ID_CACHE, HASH_CACHE, WARM_CACHE, ram, disk, disabled, args, result,
                   raised, calls, ncalls>>

\* the flusher's flush goes on after a wait, lines 325-338
FlusherStep ==
    /\ pc.close = "idle"
    /\ pc.flusher \in FlushAwaits
    /\ pc' = [pc EXCEPT !.flusher = AfterAwait(pc.flusher, "sleep")]
    /\ loc' = LET l == Executed(pc.flusher, loc)
              IN  IF pc.flusher = "commit" THEN [l EXCEPT !.batch = <<>>] ELSE l
    /\ UNCHANGED <<ID_CACHE, HASH_CACHE, WARM_CACHE, ram, disk, disabled, args, result,
                   raised, calls, ncalls>>

\* close() cancels the flusher and waits for it, lines 109-112
CloseCancel ==
    /\ pc.close = "idle"
    /\ pc' = [pc EXCEPT !.close = "await_task"]
    /\ UNCHANGED loc
    /\ UNCHANGED <<ID_CACHE, HASH_CACHE, WARM_CACHE, ram, disk, disabled, args, result,
                   raised, calls, ncalls>>

\* the cancellation reaches the flusher where it waits: its local batch is
\* gone with it; the statement it was waiting for has reached the connection
\* or has not
FlusherCancelled ==
    /\ pc.close = "await_task"
    /\ pc.flusher \in FlushAwaits \cup {"sleep"}
    /\ \E reached \in BOOLEAN :
          loc' = [(IF reached THEN Executed(pc.flusher, loc) ELSE loc) EXCEPT !.batch = <<>>]
    /\ pc' = [pc EXCEPT !.flusher = "cancelled"]
    /\ UNCHANGED <<ID_CACHE, HASH_CACHE, WARM_CACHE, ram, disk, disabled, args, result,
                   raised, calls, ncalls>>

\* close() goes on once the flusher has ended, lines 113-117: the last flush
\* starts, and `_queue = None` follows it if it is over at once
CloseFlush ==
    /\ pc.close = "await_task"
    /\ pc.flusher = "cancelled"
    /\ FlushDrain("close", "conn_close")
    /\ UNCHANGED <<ID_CACHE, HASH_CACHE, WARM_CACHE, ram, disk, disabled, args, result,
                   raised, calls, ncalls>>

\* the last flush goes on after a wait, lines 325-338 and 117; BEGIN inside a
\* transaction a cancelled flush left open is an error of the connection
CloseStep ==
    /\ pc.close \in FlushAwaits
    /\ IF pc.close = "begin" /\ loc.in_txn
       THEN /\ pc' = [pc EXCEPT !.close = "raised"]
            /\ UNCHANGED loc
       ELSE /\ pc' = [pc EXCEPT !.close = AfterAwait(pc.close, "conn_close")]
            /\ loc' = LET l == Executed(pc.close, loc)
                      IN  IF pc.close = "commit" THEN [l EXCEPT !.batch = <<>>, !._queue = FALSE] ELSE l
    /\ UNCHANGED <<ID_CACHE, HASH_CACHE, WARM_CACHE, ram, disk, disabled, args, result,
                   raised, calls, ncalls>>

\* close() closes the connection and returns, lines 119-121: what was not
\* committed is rolled back
CloseConn ==
    /\ pc.close = "conn_close"
    /\ pc' = [pc EXCEPT !.close = "returned"]
    /\ loc' = [loc EXCEPT !._conn = FALSE, !.txn = {}, !.in_txn = FALSE]
    /\ UNCHANGED <<ID_CACHE, HASH_CACHE, WARM_CACHE, ram, disk, disabled, args, result,
                   raised, calls, ncalls>>

NextRegistry ==
    \/ register_meme_message
    \/ FlusherWake
    \/ FlusherStep
    \/ CloseCancel
    \/ FlusherCancelled
    \/ CloseFlush
    \/ CloseStep
    \/ CloseConn

SpecRegistry == InitRegistry /\ [][NextRegistry]_vars

\* C39: when close() has returned, every record register_meme_message queued
\* before that is a committed row of the database.
C39_NoRecordLostOnClose ==
    pc.close = "returned" => loc.queued \subseteq loc.rows


====
